---- MODULE Spec2Model ----
(***************************************************************************)
(* EasyComply: compliance calendar, document verification, document        *)
(* versions.  The state is the rows of compliance_calendar and             *)
(* compliance_documents; the operations are company signup (auto-match +   *)
(* calendar construction), the steps of the S3 upload flow, the manual     *)
(* completion, the developer's document delete and the dashboard read.     *)
(* Dates are integers that keep the calendar order (see MkDate).           *)
(***************************************************************************)
EXTENDS Integers, Sequences, FiniteSets, TLC

VARIABLES
    company,                \* the signed-up company's row (companies)
    signedUp,               \* POST /company/signup has run
    compliance_calendar,    \* sequence of rows, calendar_id = index
    compliance_documents,   \* sequence of rows, doc_id = index
    locked,                 \* (company_id, rule_id) pairs under promotion
    uploads,                \* per uploader: position in the upload flow
    response,               \* payload returned by the step just taken
    now,                    \* index of the current date in Clock
    compliance_rules,       \* sequence of rows, rule_id = index
    audit_flags,            \* sequence of rows, flag_id = index
    markDoneModal,          \* state of the dashboard's MarkDoneModal
    uploadModal,            \* state of the dashboard's UploadModal
    ruleModal,              \* the tag selectors of the developer's RuleModal
    localStorage,           \* the browser's item 'token'
    location                \* the path the router shows

\* the browser outside the manual completion
browser == <<uploadModal, ruleModal, localStorage, location>>

\* the state of the React client
client == <<markDoneModal, browser>>

\* the tables written from the developer panel and from the audit panel
panels == <<compliance_rules, audit_flags>>

vars == <<company, signedUp, compliance_calendar, compliance_documents,
          locked, uploads, response, now, panels, client>>

----------------------------------------------------------------------------
(* Bounds *)

MaxDocs == 2

\* rows of compliance_rules, the seeded ones included
MaxRules == 5

\* rows of audit_flags
MaxFlags == 2

----------------------------------------------------------------------------
(* Dates *)

NoDate == 0

MkDate(y, m, d) == ((y * 12) + (m - 1)) * 32 + d
YearOf(x) == (x \div 32) \div 12
MonthOf(x) == ((x \div 32) % 12) + 1
DayOf(x) == x % 32

IsLeap(y) == (y % 4 = 0 /\ y % 100 # 0) \/ y % 400 = 0

DaysInMonth(y, m) ==
    IF m = 2 THEN (IF IsLeap(y) THEN 29 ELSE 28)
    ELSE IF m \in {4, 6, 9, 11} THEN 30 ELSE 31

\* date + relativedelta(months=n): the day is clamped to the target month
AddMonths(x, n) ==
    LET total == YearOf(x) * 12 + (MonthOf(x) - 1) + n
        ny == total \div 12
        nm == (total % 12) + 1
        dim == DaysInMonth(ny, nm)
        nd == IF DayOf(x) > dim THEN dim ELSE DayOf(x)
    IN  MkDate(ny, nm, nd)

\* the dates the clock passes through
Clock == << MkDate(2026, 1, 1), MkDate(2027, 3, 1) >>
Today == Clock[now]

\* dates a document or a manual completion can carry
DocDates == { MkDate(2026, 1, 31), MkDate(2026, 2, 20) }
ExpiryDates == { MkDate(2026, 12, 31) }

----------------------------------------------------------------------------
(* Rule catalogue and companies *)

ALL == {"ALL"}

Rules == <<
    [rule_id |-> 1, industry_type |-> ALL, applicable_states |-> ALL,
     company_type |-> ALL, min_employees |-> 0, max_employees |-> 999999,
     frequency_months |-> 1, fixed_due_day |-> 0, fixed_due_month |-> 0,
     document_required |-> TRUE, scope |-> "Branch",
     penalty_impact |-> "High", is_active |-> TRUE],
    [rule_id |-> 2, industry_type |-> {"AI", "IT"}, applicable_states |-> ALL,
     company_type |-> {"Pvt Ltd", "Public Ltd"}, min_employees |-> 0,
     max_employees |-> 999999,
     frequency_months |-> 12, fixed_due_day |-> 20, fixed_due_month |-> 2,
     document_required |-> TRUE, scope |-> "Company",
     penalty_impact |-> "Medium", is_active |-> TRUE],
    [rule_id |-> 3, industry_type |-> ALL, applicable_states |-> {"Gujarat"},
     company_type |-> ALL, min_employees |-> 20, max_employees |-> 999999,
     frequency_months |-> 1, fixed_due_day |-> 0, fixed_due_month |-> 0,
     document_required |-> FALSE, scope |-> "Company",
     penalty_impact |-> "Low", is_active |-> TRUE],
    [rule_id |-> 4, industry_type |-> {"Transport"}, applicable_states |-> ALL,
     company_type |-> ALL, min_employees |-> 0, max_employees |-> 999999,
     frequency_months |-> 12, fixed_due_day |-> 0, fixed_due_month |-> 0,
     document_required |-> TRUE, scope |-> "Branch",
     penalty_impact |-> "High", is_active |-> TRUE]
>>

RuleOf(rid) == compliance_rules[rid]

\* required keywords of the OCR check, and the texts OCR can return
RequiredKeywords == {"licence", "valid"}
OcrTexts == { {"licence", "valid"}, {"licence"} }

StateOrder == << "Gujarat", "Maharashtra", "Rajasthan", "Goa" >>

Companies == {
    [company_id |-> 1, industry_type |-> {"IT"}, company_type |-> {"Pvt Ltd"},
     hq_state |-> "Gujarat", branch_states |-> << >>,
     employee_count |-> 50, subscription |-> "Basic",
     created_at |-> MkDate(2026, 1, 1)]
}

Uploaders == {1, 2}

----------------------------------------------------------------------------
(* MatchEngine: the auto-matching query *)

\* subscription gating of the :states parameter
Range(s) == { s[i] : i \in DOMAIN s }

EffectiveStates(c) ==
    IF c.subscription = "Basic" THEN {c.hq_state}
    ELSE {c.hq_state} \cup Range(c.branch_states)

\* variant: only the overlap is tested
DimensionMatches_overlapOnly(ruleSet, companySet) ==
    ruleSet \cap companySet # {}

\* (array && :param OR array = ARRAY['ALL'])
DimensionMatches(ruleSet, companySet) ==
    (ruleSet \cap companySet # {}) \/ ruleSet = ALL

RuleMatches(r, c) ==
    /\ DimensionMatches(r.industry_type, c.industry_type)
    /\ DimensionMatches(r.applicable_states, EffectiveStates(c))
    /\ DimensionMatches(r.company_type, c.company_type)
    /\ r.min_employees <= c.employee_count
    /\ r.max_employees >= c.employee_count
    /\ r.is_active

\* the rows the query selects from a catalogue
MatchIn(rules, c) == { i \in 1..Len(rules) : RuleMatches(rules[i], c) }

Match(c) == MatchIn(compliance_rules, c)

----------------------------------------------------------------------------
(* DueDateCalculator *)

\* variant: the date extracted from the document is ignored
computeNextDue_noOcr(rule, c, ocr_extracted_date, current_year) ==
    IF rule.fixed_due_day # 0 /\ rule.fixed_due_month # 0
    THEN MkDate(current_year, rule.fixed_due_month, rule.fixed_due_day)
    ELSE AddMonths(c.created_at, rule.frequency_months)

\* variant: the date extracted from the document wins over a fixed deadline
computeNextDue_ocrFirst(rule, c, ocr_extracted_date, current_year) ==
    IF ocr_extracted_date # NoDate
    THEN AddMonths(ocr_extracted_date, rule.frequency_months)
    ELSE IF rule.fixed_due_day # 0 /\ rule.fixed_due_month # 0
    THEN MkDate(current_year, rule.fixed_due_month, rule.fixed_due_day)
    ELSE AddMonths(c.created_at, rule.frequency_months)

computeNextDue(rule, c, ocr_extracted_date, current_year) ==
    IF rule.fixed_due_day # 0 /\ rule.fixed_due_month # 0
    THEN MkDate(current_year, rule.fixed_due_month, rule.fixed_due_day)
    ELSE IF ocr_extracted_date # NoDate
    THEN AddMonths(ocr_extracted_date, rule.frequency_months)
    ELSE AddMonths(c.created_at, rule.frequency_months)

----------------------------------------------------------------------------
(* CalendarBuilder *)

\* the states of a set, in StateOrder
RECURSIVE StatesInOrder(_, _)
StatesInOrder(S, i) ==
    IF i > Len(StateOrder) THEN << >>
    ELSE (IF StateOrder[i] \in S THEN << StateOrder[i] >> ELSE << >>)
         \o StatesInOrder(S, i + 1)

\* variant: a row created past its due date is stored as OVERDUE
NewEntry_overdue(c, rule, branch, year) ==
    [company_id |-> c.company_id, rule_id |-> rule.rule_id,
     branch_state |-> branch,
     due_date |-> computeNextDue(rule, c, NoDate, year),
     status |-> IF computeNextDue(rule, c, NoDate, year) < Today
                THEN "OVERDUE" ELSE "PENDING",
     ocr_verified |-> FALSE, ocr_result |-> {},
     next_due_date |-> NoDate]

NewEntry(c, rule, branch, year) ==
    [company_id |-> c.company_id, rule_id |-> rule.rule_id,
     branch_state |-> branch,
     due_date |-> computeNextDue(rule, c, NoDate, year),
     status |-> "PENDING", ocr_verified |-> FALSE, ocr_result |-> {},
     next_due_date |-> NoDate]

RECURSIVE EntriesForStates(_, _, _, _)
EntriesForStates(c, rule, states, year) ==
    IF states = << >> THEN << >>
    ELSE << NewEntry(c, rule, Head(states), year) >>
         \o EntriesForStates(c, rule, Tail(states), year)

\* variant: every rule is fanned out over the states, whatever its scope
EntriesForRule_ignoresScope(c, rule, year) ==
    EntriesForStates(c, rule, StatesInOrder(EffectiveStates(c), 1), year)

\* variant: one entry per listed location, HQ first, then each branch row
EntriesForRule_perListed(c, rule, year) ==
    IF rule.scope = "Branch"
    THEN EntriesForStates(c, rule,
            IF c.subscription = "Basic" THEN << c.hq_state >>
            ELSE << c.hq_state >> \o c.branch_states, year)
    ELSE << NewEntry(c, rule, "null", year) >>

\* variant: a Branch-scoped rule is fanned out over the states it covers
EntriesForRule_ruleStates(c, rule, year) ==
    IF rule.scope = "Branch"
    THEN EntriesForStates(c, rule,
            StatesInOrder(IF rule.applicable_states = ALL
                          THEN Range(StateOrder)
                          ELSE rule.applicable_states, 1), year)
    ELSE << NewEntry(c, rule, "null", year) >>

EntriesForRule(c, rule, year) ==
    IF rule.scope = "Branch"
    THEN EntriesForStates(c, rule, StatesInOrder(EffectiveStates(c), 1), year)
    ELSE << NewEntry(c, rule, "null", year) >>

RECURSIVE BuildFrom(_, _, _, _)
BuildFrom(c, matched, i, year) ==
    IF i > Len(compliance_rules) THEN << >>
    ELSE (IF i \in matched THEN EntriesForRule(c, compliance_rules[i], year)
          ELSE << >>)
         \o BuildFrom(c, matched, i + 1, year)

Build(matched, c, year) == BuildFrom(c, matched, 1, year)

----------------------------------------------------------------------------
(* DocumentVerifier *)

MissingKeywords(text) == RequiredKeywords \ text

\* variant: a document dated on the due date itself counts as late
Verdict_strict(missing, doc_date, due_date) ==
    IF missing # {} THEN "FAILED"
    ELSE IF doc_date < due_date THEN "COMPLETED"
    ELSE "OVERDUE-PASS"

Verdict(missing, doc_date, due_date) ==
    IF missing # {} THEN "FAILED"
    ELSE IF doc_date <= due_date THEN "COMPLETED"
    ELSE "OVERDUE-PASS"

\* variant: a failed upload also moves the row to the next cycle
ApplyVerdict_failedAdvances(row, c, missing, doc_date, year) ==
    LET verdict == Verdict(missing, doc_date, row.due_date)
        next_due == computeNextDue(RuleOf(row.rule_id), c, doc_date, year)
    IN  [row EXCEPT !.status = verdict, !.ocr_verified = (verdict # "FAILED"),
                    !.ocr_result = missing,
                    !.next_due_date = next_due, !.due_date = next_due]

\* variant: an accepted upload records next_due_date only
ApplyVerdict_keepsDue(row, c, missing, doc_date, year) ==
    LET verdict == Verdict(missing, doc_date, row.due_date)
        next_due == computeNextDue(RuleOf(row.rule_id), c, doc_date, year)
    IN  IF verdict = "FAILED"
        THEN [row EXCEPT !.status = "FAILED", !.ocr_verified = FALSE,
                         !.ocr_result = missing]
        ELSE [row EXCEPT !.status = verdict, !.ocr_verified = TRUE,
                         !.ocr_result = {}, !.next_due_date = next_due]

\* the calendar row after a verdict on a document dated doc_date
ApplyVerdict(row, c, missing, doc_date, year) ==
    LET verdict == Verdict(missing, doc_date, row.due_date)
        next_due == computeNextDue(RuleOf(row.rule_id), c, doc_date, year)
    IN  IF verdict = "FAILED"
        THEN [row EXCEPT !.status = "FAILED", !.ocr_verified = FALSE,
                         !.ocr_result = missing]
        ELSE [row EXCEPT !.status = verdict, !.ocr_verified = TRUE,
                         !.ocr_result = {},
                         !.next_due_date = next_due, !.due_date = next_due]

\* variant: only a PENDING row is derived as OVERDUE
DerivedStatus_pendingOnly(row, today) ==
    IF row.status = "PENDING" /\ row.due_date < today
    THEN "OVERDUE"
    ELSE row.status

\* read-time status of a row
DerivedStatus(row, today) ==
    IF row.status \in {"PENDING", "COMPLETED", "OVERDUE-PASS"}
       /\ row.due_date < today
    THEN "OVERDUE"
    ELSE row.status

----------------------------------------------------------------------------
(* ScoreEngine: scores are exact fractions [num, den], den > 0 *)

Weight(penalty_impact) ==
    CASE penalty_impact = "Imprisonment" -> 40
      [] penalty_impact = "High" -> 30
      [] penalty_impact = "Medium" -> 20
      [] penalty_impact = "Low" -> 10

\* variant: a late but valid document earns full credit
DoubleMultiplier_lateIsFull(status) ==
    CASE status \in {"COMPLETED", "OVERDUE-PASS"} -> 2
      [] status \in {"PENDING", "FAILED", "OVERDUE"} -> 0

\* twice the status multiplier: 1.0, 0.5, 0.0
DoubleMultiplier(status) ==
    CASE status = "COMPLETED" -> 2
      [] status = "OVERDUE-PASS" -> 1
      [] status \in {"PENDING", "FAILED", "OVERDUE"} -> 0

\* variant: a FAILED rule counts as overdue, as in the dashboard's highlight
CountsAsOverdue_orFailed(status) == status \in {"OVERDUE", "FAILED"}

\* "OVERDUE rules only"
CountsAsOverdue(status) == status = "OVERDUE"

RECURSIVE SumOfWeights(_, _)
SumOfWeights(entries, rules) ==
    IF entries = << >> THEN 0
    ELSE Weight(rules[Head(entries).rule_id].penalty_impact)
         + SumOfWeights(Tail(entries), rules)

RECURSIVE SumOfCredit_stored(_, _, _)
\* variant: the credit is taken from the stored status, the risk from the
\* status as read
SumOfCredit_stored(entries, rules, today) ==
    IF entries = << >> THEN 0
    ELSE Weight(rules[Head(entries).rule_id].penalty_impact)
            * DoubleMultiplier(Head(entries).status)
         + SumOfCredit_stored(Tail(entries), rules, today)

RECURSIVE SumOfCredit(_, _, _)
SumOfCredit(entries, rules, today) ==
    IF entries = << >> THEN 0
    ELSE Weight(rules[Head(entries).rule_id].penalty_impact)
            * DoubleMultiplier(DerivedStatus(Head(entries), today))
         + SumOfCredit(Tail(entries), rules, today)

RECURSIVE SumOfOverdue(_, _, _)
SumOfOverdue(entries, rules, today) ==
    IF entries = << >> THEN 0
    ELSE (IF CountsAsOverdue(DerivedStatus(Head(entries), today))
          THEN Weight(rules[Head(entries).rule_id].penalty_impact) ELSE 0)
         + SumOfOverdue(Tail(entries), rules, today)

\* variant: exactly 90 is still a B, exactly 75 still a C, and so on
Grade_exclusive(compliance) ==
    IF compliance.num > 90 * compliance.den THEN "A"
    ELSE IF compliance.num > 75 * compliance.den THEN "B"
    ELSE IF compliance.num > 50 * compliance.den THEN "C"
    ELSE IF compliance.num > 25 * compliance.den THEN "D"
    ELSE "F"

Grade(compliance) ==
    IF compliance.num >= 90 * compliance.den THEN "A"
    ELSE IF compliance.num >= 75 * compliance.den THEN "B"
    ELSE IF compliance.num >= 50 * compliance.den THEN "C"
    ELSE IF compliance.num >= 25 * compliance.den THEN "D"
    ELSE "F"

score(entries, rules, today) ==
    LET total == SumOfWeights(entries, rules)
        compliance == IF total = 0 THEN [num |-> 0, den |-> 1]
                      ELSE [num |-> 100 * SumOfCredit(entries, rules, today),
                            den |-> 2 * total]
        risk == IF total = 0 THEN [num |-> 0, den |-> 1]
                ELSE [num |-> 100 * SumOfOverdue(entries, rules, today),
                      den |-> total]
    IN  [compliance |-> compliance, risk |-> risk, grade |-> Grade(compliance)]

----------------------------------------------------------------------------
(* VersionStore *)

Pair(row) == << row.company_id, row.rule_id >>

DocsOf(docs, pair) == { i \in 1..Len(docs) : Pair(docs[i]) = pair }

MaxVersion(docs, pair) ==
    IF DocsOf(docs, pair) = {} THEN 0
    ELSE CHOOSE v \in { docs[i].version_number : i \in DocsOf(docs, pair) } :
            \A i \in DocsOf(docs, pair) : docs[i].version_number <= v

\* variant: the maximum is taken over the versions not soft-deleted
get_next_version_live(docs, pair) ==
    LET live == { i \in DocsOf(docs, pair) : ~docs[i].is_deleted } IN
    IF live = {} THEN 1
    ELSE 1 + (CHOOSE v \in { docs[i].version_number : i \in live } :
                \A i \in live : docs[i].version_number <= v)

get_next_version(docs, pair) == MaxVersion(docs, pair) + 1

\* variant: the old versions are left current
MarkOldDocs_none(docs, pair) == docs

MarkOldDocs(docs, pair) ==
    [ i \in 1..Len(docs) |->
        IF Pair(docs[i]) = pair THEN [docs[i] EXCEPT !.is_current = FALSE]
        ELSE docs[i] ]

\* the live versions of a pair below a version bound, highest first
RECURSIVE VersionsBelow(_, _, _)
VersionsBelow(docs, pair, bound) ==
    LET live == { i \in DocsOf(docs, pair) :
                    ~docs[i].is_deleted /\ docs[i].version_number < bound }
    IN  IF live = {} THEN << >>
        ELSE LET top == CHOOSE i \in live :
                          \A j \in live :
                             docs[j].version_number <= docs[i].version_number
             IN  << docs[top] >>
                 \o VersionsBelow(docs, pair, docs[top].version_number)

\* GET /compliance/document/history/{rule_id}: the versions of a rule and
\* company, ordered by version_number DESC
history(docs, pair) == VersionsBelow(docs, pair, MaxVersion(docs, pair) + 1)

NewDocument(row, calendar_id, version) ==
    [company_id |-> row.company_id, rule_id |-> row.rule_id,
     calendar_id |-> calendar_id, version_number |-> version,
     is_current |-> TRUE, ocr_status |-> "NONE",
     is_deleted |-> FALSE, deleted_reason |-> "null"]

----------------------------------------------------------------------------
(* Initial state *)

NoResponse == [kind |-> "none"]

\* the value of an empty date input, and of an empty text input
Empty == -1

\* localStorage.getItem('token') of a store without the item
NoToken == [kind |-> "null"]

\* CompanyDashboard's uploadModal closed: no UploadModal is mounted
NoFile == [name |-> "", size |-> 0]
UploadClosed ==
    [open |-> FALSE, calendarId |-> 0, file |-> NoFile, fileError |-> "",
     loading |-> FALSE, result |-> NoResponse, apiError |-> "",
     pending |-> 0]

\* RuleModal's defaultValues of the three tag selectors
RuleModalDefaults ==
    [industry_type |-> <<"ALL">>, applicable_states |-> <<"ALL">>,
     company_type |-> <<"ALL">>]

\* CompanyDashboard's markDoneModal closed: no MarkDoneModal is mounted
MarkDoneClosed ==
    [open |-> FALSE, calendarId |-> 0, note |-> "", renewalDate |-> Empty,
     expiryDate |-> Empty, useCustomExpiry |-> FALSE, loading |-> FALSE,
     apiError |-> "", result |-> NoResponse, request |-> NoResponse]

IdleUpload == [pc |-> "idle", calendar_id |-> 0, version |-> 0, doc_id |-> 0]

Init ==
    /\ company \in Companies
    /\ signedUp = FALSE
    /\ compliance_calendar = << >>
    /\ compliance_documents = << >>
    /\ locked = {}
    /\ uploads = [u \in Uploaders |-> IdleUpload]
    /\ response = NoResponse
    /\ now = 1
    /\ compliance_rules = Rules
    /\ audit_flags = << >>
    /\ markDoneModal = MarkDoneClosed
    /\ uploadModal = UploadClosed
    /\ ruleModal = RuleModalDefaults
    /\ localStorage = NoToken
    /\ location = "/"

----------------------------------------------------------------------------
(* Operations *)

CalendarIds == DOMAIN compliance_calendar
DocIds == DOMAIN compliance_documents

\* variant: the email of the signup is never found in users
EmailTaken_never == FALSE

\* users.email is UNIQUE: the company's email is taken once it has signed up
EmailTaken == signedUp

\* POST /company/signup: auto-match, then populate compliance_calendar
Signup ==
    /\ ~EmailTaken
    /\ signedUp' = TRUE
    /\ compliance_calendar' = compliance_calendar
            \o Build(Match(company), company, YearOf(Today))
    /\ response' = [kind |-> "signup",
                    total_rules_matched |-> Cardinality(Match(company))]
    /\ UNCHANGED <<client, panels, company, compliance_documents, locked, uploads, now>>

\* POST /company/signup again for the same company: "Signup failed"
SignupRejected ==
    /\ EmailTaken
    /\ response' = [kind |-> "signup_failed"]
    /\ UNCHANGED <<client, panels, company, signedUp, compliance_calendar,
                   compliance_documents, locked, uploads, now>>

\* time passes
Tick ==
    /\ now < Len(Clock)
    /\ now' = now + 1
    /\ response' = NoResponse
    /\ UNCHANGED <<client, panels, company, signedUp, compliance_calendar,
                   compliance_documents, locked, uploads>>

\* the per-(company, rule) mutual-exclusion scope around
\* "compute next version -> insert -> demote previous current"
\* variant: no mutual exclusion
ScopeFree_none(pair) == TRUE

ScopeFree(pair) == pair \notin locked

\* the action column: Upload / Re-upload on a document rule,
\* Mark Done / Re-do on the others, whatever the status
\* variant: a row already done shows "Done" and no action
UploadOffered_doneIsFinal(row) ==
    /\ RuleOf(row.rule_id).document_required
    /\ row.status \notin {"COMPLETED", "OVERDUE-PASS"}

UploadOffered(row) == RuleOf(row.rule_id).document_required
MarkDoneOffered(row) == ~RuleOf(row.rule_id).document_required

\* uploads that hold a version number not yet inserted
Reserved == { u \in Uploaders : uploads[u].pc \in {"mark", "insert"} }

\* POST /compliance/upload/{calendar_id}, step 1: enter the (company, rule)
\* scope and calculate the version: last_version + 1
UploadStart(u, cid) ==
    LET row == compliance_calendar[cid] IN
    /\ uploads[u].pc = "idle"
    /\ \A v \in Uploaders : v < u => uploads[v].pc # "idle"
    /\ UploadOffered(row)
    /\ ScopeFree(Pair(row))
    /\ Len(compliance_documents) + Cardinality(Reserved) < MaxDocs
    /\ locked' = locked \cup {Pair(row)}
    /\ uploads' = [uploads EXCEPT ![u] =
            [pc |-> "mark", calendar_id |-> cid,
             version |-> get_next_version(compliance_documents, Pair(row)),
             doc_id |-> 0]]
    /\ response' = NoResponse
    /\ UNCHANGED <<client, panels, company, signedUp, compliance_calendar,
                   compliance_documents, now>>

\* step 2: mark old docs is_current = FALSE
UploadMarkOld(u) ==
    LET row == compliance_calendar[uploads[u].calendar_id] IN
    /\ uploads[u].pc = "mark"
    /\ compliance_documents' = MarkOldDocs(compliance_documents, Pair(row))
    /\ uploads' = [uploads EXCEPT ![u].pc = "insert"]
    /\ response' = NoResponse
    /\ UNCHANGED <<client, panels, company, signedUp, compliance_calendar, locked, now>>

\* variant: a re-upload overwrites the stored version of its pair in place
UploadInsert_overwrites(u) ==
    LET row == compliance_calendar[uploads[u].calendar_id]
        old == DocsOf(compliance_documents, Pair(row))
        at == IF old = {} THEN Len(compliance_documents) + 1
              ELSE CHOOSE i \in old : \A j \in old : j <= i
    IN
    /\ uploads[u].pc = "insert"
    /\ compliance_documents' =
            IF old = {}
            THEN Append(compliance_documents,
                    NewDocument(row, uploads[u].calendar_id, uploads[u].version))
            ELSE [compliance_documents EXCEPT ![at] =
                    NewDocument(row, uploads[u].calendar_id, uploads[u].version)]
    /\ locked' = locked \ {Pair(row)}
    /\ uploads' = [uploads EXCEPT ![u].pc = "ocr", ![u].doc_id = at]
    /\ response' = NoResponse
    /\ UNCHANGED <<client, panels, company, signedUp, compliance_calendar, now>>

\* step 3: insert the new row in compliance_documents, leave the scope
UploadInsert(u) ==
    LET row == compliance_calendar[uploads[u].calendar_id] IN
    /\ uploads[u].pc = "insert"
    /\ compliance_documents' = Append(compliance_documents,
            NewDocument(row, uploads[u].calendar_id, uploads[u].version))
    /\ locked' = locked \ {Pair(row)}
    /\ uploads' = [uploads EXCEPT ![u].pc = "ocr",
                                  ![u].doc_id = Len(compliance_documents) + 1]
    /\ response' = NoResponse
    /\ UNCHANGED <<client, panels, company, signedUp, compliance_calendar, now>>

\* variant: the status is committed first, the dates with a second commit
UploadVerify_statusFirst(u, text, doc_date) ==
    LET cid == uploads[u].calendar_id
        row == compliance_calendar[cid]
        missing == MissingKeywords(text)
        after == ApplyVerdict(row, company, missing, doc_date, YearOf(Today))
    IN
    /\ uploads[u].pc = "ocr"
    /\ IF compliance_documents[uploads[u].doc_id].ocr_status = "NONE"
       THEN /\ compliance_calendar' = [compliance_calendar EXCEPT
                    ![cid].status = after.status]
            /\ compliance_documents' = [compliance_documents EXCEPT
                    ![uploads[u].doc_id].ocr_status =
                        Verdict(missing, doc_date, row.due_date)]
            /\ UNCHANGED uploads
       ELSE /\ compliance_calendar' = [compliance_calendar EXCEPT
                    ![cid] = [after EXCEPT !.status = row.status]]
            /\ UNCHANGED compliance_documents
            /\ uploads' = [uploads EXCEPT ![u] = IdleUpload]
    /\ response' = [kind |-> "upload",
                    status |-> compliance_calendar'[cid].status,
                    issue_date |-> doc_date,
                    next_due_date |-> compliance_calendar'[cid].next_due_date,
                    ocr_result |-> compliance_calendar'[cid].ocr_result]
    /\ UNCHANGED <<client, panels, company, signedUp, locked, now>>

\* step 4: OCR, save the OCR result in the document row, update the
\* calendar row, return the result
UploadVerify(u, text, doc_date) ==
    LET cid == uploads[u].calendar_id
        row == compliance_calendar[cid]
        missing == MissingKeywords(text)
    IN
    /\ uploads[u].pc = "ocr"
    /\ compliance_calendar' = [compliance_calendar EXCEPT ![cid] =
            ApplyVerdict(row, company, missing, doc_date, YearOf(Today))]
    /\ compliance_documents' = [compliance_documents EXCEPT
            ![uploads[u].doc_id].ocr_status =
                Verdict(missing, doc_date, row.due_date)]
    /\ uploads' = [uploads EXCEPT ![u] = IdleUpload]
    /\ response' = [kind |-> "upload",
                    status |-> compliance_calendar'[cid].status,
                    issue_date |-> doc_date,
                    next_due_date |-> compliance_calendar'[cid].next_due_date,
                    ocr_result |-> compliance_calendar'[cid].ocr_result]
    /\ UNCHANGED <<client, panels, company, signedUp, locked, now>>

\* variant: the default expiry goes through the due date cascade, a fixed
\* deadline first
markdoneNextDue_cascade(rule, renewal_date, expiry_date, permanent) ==
    IF permanent THEN NoDate
    ELSE IF expiry_date # NoDate THEN expiry_date
    ELSE IF rule.fixed_due_day # 0 /\ rule.fixed_due_month # 0
    THEN MkDate(YearOf(renewal_date), rule.fixed_due_month, rule.fixed_due_day)
    ELSE AddMonths(renewal_date, rule.frequency_months)

\* next_due_date of a manual completion: none when permanent, the custom
\* expiry when one is given, else rule.frequency_months from the issue date
markdoneNextDue(rule, renewal_date, expiry_date, permanent) ==
    IF permanent THEN NoDate
    ELSE IF expiry_date # NoDate THEN expiry_date
    ELSE AddMonths(renewal_date, rule.frequency_months)

\* the calendar row after a manual completion
ApplyMarkDone(row, c, renewal_date, expiry_date, permanent, year) ==
    LET verdict == Verdict({}, renewal_date, row.due_date)
        next_due == markdoneNextDue(RuleOf(row.rule_id), renewal_date,
                                    expiry_date, permanent)
    IN  IF permanent
        THEN [row EXCEPT !.status = verdict, !.next_due_date = NoDate]
        ELSE [row EXCEPT !.status = verdict,
                         !.next_due_date = next_due, !.due_date = next_due]

\* PATCH /compliance/markdone/{calendar_id}: the handler
markdone(cid, renewal_date, expiry_date, permanent) ==
    LET row == compliance_calendar[cid] IN
    /\ MarkDoneOffered(row)
    /\ permanent => expiry_date = NoDate
    /\ compliance_calendar' = [compliance_calendar EXCEPT ![cid] =
            ApplyMarkDone(row, company, renewal_date, expiry_date,
                          permanent, YearOf(Today))]
    /\ response' = [kind |-> "markdone", permanent |-> permanent,
                    next_due_date |-> compliance_calendar'[cid].next_due_date]
    /\ UNCHANGED <<panels, company, signedUp, compliance_documents, locked,
                   uploads, now>>

\* PATCH /compliance/markdone/{calendar_id}, called on its own
MarkDone(cid, renewal_date, expiry_date, permanent) ==
    /\ markdone(cid, renewal_date, expiry_date, permanent)
    /\ UNCHANGED client

\* variant: a deleted version also stops being the current one
Remove_demotes(d, reason) ==
    /\ ~compliance_documents[d].is_deleted
    /\ compliance_documents' = [compliance_documents EXCEPT
            ![d].is_deleted = TRUE, ![d].deleted_reason = reason,
            ![d].is_current = FALSE]
    /\ response' = NoResponse
    /\ UNCHANGED <<client, panels, company, signedUp, compliance_calendar, locked,
                   uploads, now>>

\* DELETE /developer/document/{doc_id}: set is_deleted = TRUE
Remove(d, reason) ==
    /\ ~compliance_documents[d].is_deleted
    /\ compliance_documents' = [compliance_documents EXCEPT
            ![d].is_deleted = TRUE, ![d].deleted_reason = reason]
    /\ response' = NoResponse
    /\ UNCHANGED <<client, panels, company, signedUp, compliance_calendar, locked,
                   uploads, now>>

\* GET /compliance/document/history/{rule_id}
History(rule_id) ==
    /\ signedUp
    /\ response' = [kind |-> "history", rule_id |-> rule_id,
                    versions |-> history(compliance_documents,
                                         << company.company_id, rule_id >>)]
    /\ UNCHANGED <<client, panels, company, signedUp, compliance_calendar,
                   compliance_documents, locked, uploads, now>>

\* GET /company/dashboard: rows with the read-time status
DashboardRows(calendar, today) ==
    [ i \in DOMAIN calendar |-> DerivedStatus(calendar[i], today) ]

Read ==
    /\ signedUp
    /\ response' = [kind |-> "dashboard",
                    rules |-> DashboardRows(compliance_calendar, Today),
                    summary |-> score(compliance_calendar, compliance_rules, Today)]
    /\ UNCHANGED <<client, panels, company, signedUp, compliance_calendar,
                   compliance_documents, locked, uploads, now>>

----------------------------------------------------------------------------
(* MarkDoneModal: the form of the manual completion *)

\* what the requests of the client do not touch
server == <<company, signedUp, compliance_calendar, compliance_documents,
            locked, uploads, now, panels>>

Notes == {"Filed GST return"}

\* the form is shown and its inputs are enabled
MarkDoneEditable ==
    /\ markDoneModal.open
    /\ ~markDoneModal.loading
    /\ markDoneModal.result = NoResponse

\* the Mark Done / Re-do button of a row
OpenMarkDone(cid) ==
    /\ signedUp
    /\ ~markDoneModal.open
    /\ MarkDoneOffered(compliance_calendar[cid])
    /\ markDoneModal' = [MarkDoneClosed EXCEPT !.open = TRUE,
                                               !.calendarId = cid]
    /\ UNCHANGED <<server, response, browser>>

setNote(text) ==
    /\ MarkDoneEditable
    /\ markDoneModal' = [markDoneModal EXCEPT !.note = text, !.apiError = ""]
    /\ UNCHANGED <<server, response, browser>>

\* the max and min attributes of the date inputs are hints of the browser,
\* not checks of the handlers
setRenewalDate(d) ==
    /\ MarkDoneEditable
    /\ markDoneModal' = [markDoneModal EXCEPT !.renewalDate = d,
                                              !.apiError = ""]
    /\ UNCHANGED <<server, response, browser>>

\* radio "Use rule's default"
SelectDefaultExpiry ==
    /\ MarkDoneEditable
    /\ markDoneModal' = [markDoneModal EXCEPT !.useCustomExpiry = FALSE,
                                              !.expiryDate = Empty]
    /\ UNCHANGED <<server, response, browser>>

\* radio "Set custom expiry date"
SelectCustomExpiry ==
    /\ MarkDoneEditable
    /\ markDoneModal' = [markDoneModal EXCEPT !.useCustomExpiry = TRUE]
    /\ UNCHANGED <<server, response, browser>>

\* the expiry input, disabled unless the custom option is selected
setExpiryDate(d) ==
    /\ MarkDoneEditable
    /\ markDoneModal.useCustomExpiry
    /\ markDoneModal' = [markDoneModal EXCEPT !.expiryDate = d]
    /\ UNCHANGED <<server, response, browser>>

\* expiry_date: useCustomExpiry ? (expiryDate || null) : null
MarkDonePayload(m) ==
    [note |-> m.note, renewal_date |-> m.renewalDate,
     expiry_date |-> IF m.useCustomExpiry
                     THEN (IF m.expiryDate = Empty THEN NoDate
                           ELSE m.expiryDate)
                     ELSE NoDate]

\* handleSubmit up to the request; the Confirm button is disabled while the
\* note or the issue date is missing, so its two early returns are not taken
MarkDoneSubmit ==
    /\ MarkDoneEditable
    /\ markDoneModal.note # ""
    /\ markDoneModal.renewalDate # Empty
    /\ markDoneModal' = [markDoneModal EXCEPT
            !.apiError = "", !.loading = TRUE,
            !.request = MarkDonePayload(markDoneModal)]
    /\ UNCHANGED <<server, response, browser>>

\* the PATCH is answered: setResult(res.data), setLoading(false)
MarkDoneRespond(permanent) ==
    /\ markDoneModal.open
    /\ markDoneModal.loading
    /\ markdone(markDoneModal.calendarId, markDoneModal.request.renewal_date,
                markDoneModal.request.expiry_date, permanent)
    /\ markDoneModal' = [markDoneModal EXCEPT !.loading = FALSE,
                                              !.result = response']
    /\ UNCHANGED browser

\* the PATCH fails: setApiError(...), setLoading(false)
MarkDoneFail ==
    /\ markDoneModal.open
    /\ markDoneModal.loading
    /\ markDoneModal' = [markDoneModal EXCEPT
            !.loading = FALSE, !.apiError = "Could not mark as done"]
    /\ UNCHANGED <<server, response, browser>>

\* handleClose: onSuccess (close and fetchDashboard) after a result,
\* onClose otherwise; backdrop, cross and Cancel are off while loading
MarkDoneClose ==
    /\ markDoneModal.open
    /\ ~markDoneModal.loading
    /\ markDoneModal' = MarkDoneClosed
    /\ response' = IF markDoneModal.result # NoResponse
                   THEN [kind |-> "dashboard",
                         rules |-> DashboardRows(compliance_calendar, Today),
                         summary |-> score(compliance_calendar, compliance_rules, Today)]
                   ELSE response
    /\ UNCHANGED <<server, browser>>

----------------------------------------------------------------------------
(* Developer panel: the rule catalogue; signup with the count of the form *)

\* the values of the rule form: the defaults, and an employee range
RuleForms ==
    { [rule_name |-> "New rule", industry_type |-> ALL,
       applicable_states |-> ALL, company_type |-> ALL,
       min_employees |-> mn, max_employees |-> mx,
       frequency_months |-> 12, document_required |-> FALSE,
       penalty_impact |-> "Medium", scope |-> "Company"] :
      mn \in {0, 60}, mx \in {50, 999999} }

\* the seed rule of one state with a document per branch, as the values of
\* the rule form
GujaratShopsAct ==
    [rule_name |-> "Gujarat Shops and Establishments Act",
     industry_type |-> ALL, applicable_states |-> {"Gujarat"},
     company_type |-> ALL, min_employees |-> 0, max_employees |-> 999999,
     frequency_months |-> 12, document_required |-> TRUE,
     penalty_impact |-> "Medium", scope |-> "Branch"]

\* the rules the developer opens for an edit
EditedRules == {3, 5}

\* the employee counts a signup request can carry
EmployeeCounts == {-5, 10, 50}

\* variant: only the checks of the rule form are made, each bound on its own
ValidRule_formOnly(values) ==
    values.min_employees >= 0 /\ values.max_employees >= 0

\* ValidationError: rule with min > max
ValidRule(values) == values.min_employees <= values.max_employees

\* ValidationError: employee_count negative
ValidEmployeeCount(employee_count) == employee_count >= 0

ValidationError(detail) == [kind |-> "ValidationError", detail |-> detail]

\* the row of compliance_rules a form's values become
RuleRow(values, rule_id) ==
    [rule_id |-> rule_id, industry_type |-> values.industry_type,
     applicable_states |-> values.applicable_states,
     company_type |-> values.company_type,
     min_employees |-> values.min_employees,
     max_employees |-> values.max_employees,
     frequency_months |-> values.frequency_months,
     fixed_due_day |-> 0, fixed_due_month |-> 0,
     document_required |-> values.document_required,
     scope |-> values.scope, penalty_impact |-> values.penalty_impact,
     is_active |-> TRUE]

\* ManageRulesTab.handleSubmit: POST /developer/rules (target = 0) or
\* PUT /developer/rules/{id} with the employee range of the form
SaveRule(values, target) ==
    /\ target = 0 => Len(compliance_rules) < MaxRules
    /\ target # 0 => target \in DOMAIN compliance_rules
    /\ IF ~ValidRule(values)
       THEN /\ response' = ValidationError("min_employees > max_employees")
            /\ UNCHANGED compliance_rules
       ELSE /\ compliance_rules' =
                IF target = 0
                THEN Append(compliance_rules,
                            RuleRow(values, Len(compliance_rules) + 1))
                ELSE [compliance_rules EXCEPT
                        ![target].min_employees = values.min_employees,
                        ![target].max_employees = values.max_employees]
            /\ response' = [kind |-> "rule_saved",
                            rule_id |-> IF target = 0
                                        THEN Len(compliance_rules) + 1
                                        ELSE target]
    /\ UNCHANGED <<client, audit_flags, company, signedUp, compliance_calendar,
                   compliance_documents, locked, uploads, now>>

\* POST /company/signup with the employee count of the payload
SignupWith(employee_count) ==
    LET c == [company EXCEPT !.employee_count = employee_count] IN
    /\ ~EmailTaken
    /\ IF ~ValidEmployeeCount(employee_count)
       THEN /\ response' = ValidationError("employee_count negative")
            /\ UNCHANGED <<company, signedUp, compliance_calendar>>
       ELSE /\ company' = c
            /\ signedUp' = TRUE
            /\ compliance_calendar' = compliance_calendar
                    \o Build(Match(c), c, YearOf(Today))
            /\ response' = [kind |-> "signup",
                            total_rules_matched |-> Cardinality(Match(c))]
    /\ UNCHANGED <<client, panels, compliance_documents, locked, uploads, now>>

\* the catalogue under the developer's edits, and the signups that read it
NextCatalogue ==
    \/ \E values \in RuleForms : SaveRule(values, 0)
    \/ \E values \in RuleForms, target \in EditedRules :
            SaveRule(values, target)
    \/ \E employee_count \in EmployeeCounts : SignupWith(employee_count)

SpecCatalogue == Init /\ [][NextCatalogue]_vars

----------------------------------------------------------------------------
(* FlagLedger: audit_flags *)

Auditors == {"auditor@ca"}
Admins == {"admin@co"}
FlagReasons == {"incorrect dates"}

\* variant: the row is inserted with the resolver fields already filled
NewFlag_stamped(flag_id, c, doc_id, by, reason, today) ==
    [flag_id |-> flag_id, company_id |-> c.company_id, doc_id |-> doc_id,
     flagged_by |-> by, reason |-> reason, flagged_at |-> today,
     resolved |-> FALSE, resolved_by |-> by, resolved_at |-> today]

\* a new row of audit_flags: resolved DEFAULT FALSE, no resolver
NewFlag(flag_id, c, doc_id, by, reason, today) ==
    [flag_id |-> flag_id, company_id |-> c.company_id, doc_id |-> doc_id,
     flagged_by |-> by, reason |-> reason, flagged_at |-> today,
     resolved |-> FALSE, resolved_by |-> "null", resolved_at |-> NoDate]

\* POST /audit/flag/{doc_id}: insert audit_flags row; doc_id REFERENCES
\* compliance_documents, so a number that is no doc_id is refused.  The
\* auditor's table sends the calendar_id of the row as doc_id
RaiseFlag(doc_id, by, reason) ==
    /\ signedUp
    /\ Len(audit_flags) < MaxFlags
    /\ IF doc_id \in DocIds
       THEN /\ audit_flags' = Append(audit_flags,
                    NewFlag(Len(audit_flags) + 1, company, doc_id, by,
                            reason, Today))
            /\ response' = [kind |-> "flag", flag_id |-> Len(audit_flags) + 1]
       ELSE /\ response' = [kind |-> "flag_failed"]
            /\ UNCHANGED audit_flags
    /\ UNCHANGED <<client, compliance_rules, company, signedUp,
                   compliance_calendar, compliance_documents, locked,
                   uploads, now>>

\* PATCH /company/flag/{flag_id}/resolve: set resolved = TRUE, resolved_by,
\* resolved_at
ResolveFlag(flag_id, by) ==
    /\ flag_id \in DOMAIN audit_flags
    /\ audit_flags' = [audit_flags EXCEPT ![flag_id].resolved = TRUE,
                                          ![flag_id].resolved_by = by,
                                          ![flag_id].resolved_at = Today]
    /\ response' = [kind |-> "flag_resolved", flag_id |-> flag_id]
    /\ UNCHANGED <<client, compliance_rules, company, signedUp,
                   compliance_calendar, compliance_documents, locked,
                   uploads, now>>

\* the ledger next to the uploads of one uploader
NextFlags ==
    \/ Signup
    \/ \E cid \in CalendarIds : UploadStart(1, cid)
    \/ UploadMarkOld(1)
    \/ UploadInsert(1)
    \/ \E text \in OcrTexts, d \in DocDates : UploadVerify(1, text, d)
    \/ \E doc_id \in CalendarIds, by \in Auditors, reason \in FlagReasons :
            RaiseFlag(doc_id, by, reason)
    \/ \E flag_id \in DOMAIN audit_flags, by \in Admins :
            ResolveFlag(flag_id, by)

SpecFlags == Init /\ [][NextFlags]_vars

----------------------------------------------------------------------------
(* App: the routes and ProtectedRoute *)

\* what the router does not touch
offRoute == <<server, response, markDoneModal, uploadModal, ruleModal>>

Roles == {"developer", "company", "auditor"}

\* the exp claims of the tokens, in the unit of Clock; 0 is a payload
\* without exp
TokenExps == {0, MkDate(2025, 12, 31), MkDate(2026, 1, 1), MkDate(2026, 6, 1),
              MkDate(2027, 3, 1), MkDate(2028, 1, 1)}

\* a stored string that jwtDecode rejects
Malformed == [kind |-> "jwt", decodes |-> FALSE, exp |-> 0, role |-> ""]

\* the payloads jwtDecode returns; role "" is a payload without role
Jwts == [kind : {"jwt"}, decodes : {TRUE}, exp : TokenExps,
         role : Roles \cup {""}]

Tokens == Jwts \cup {Malformed}

Dashboards == {"/developer", "/company", "/auditor"}
Paths == {"/", "/signup"} \cup Dashboards

\* the role prop of the route's ProtectedRoute; "" for a public route
RequiredRole(path) ==
    CASE path = "/developer" -> "developer"
      [] path = "/company" -> "company"
      [] path = "/auditor" -> "auditor"
      [] OTHER -> ""

\* variant: the route checks the token and its expiry, not its role
ProtectedRoute_anyRole(token, role, t) ==
    IF token = NoToken THEN [children |-> FALSE, token |-> token]
    ELSE IF ~token.decodes THEN [children |-> FALSE, token |-> NoToken]
    ELSE IF token.exp # 0 /\ token.exp < t
         THEN [children |-> FALSE, token |-> NoToken]
    ELSE [children |-> TRUE, token |-> token]

\* ProtectedRoute({children, role}): children are rendered, or Navigate to
\* "/"; token is the item left in localStorage
ProtectedRoute(token, role, t) ==
    IF token = NoToken THEN [children |-> FALSE, token |-> token]
    ELSE IF ~token.decodes THEN [children |-> FALSE, token |-> NoToken]
    ELSE IF token.exp # 0 /\ token.exp < t
         THEN [children |-> FALSE, token |-> NoToken]
    ELSE IF role # "" /\ token.role # role
         THEN [children |-> FALSE, token |-> token]
    ELSE [children |-> TRUE, token |-> token]

\* <Routes>: the element of the path, rendered with the stored token
App(path, token, t) ==
    IF path \in Dashboards
    THEN LET shown == ProtectedRoute(token, RequiredRole(path), t) IN
         [location |-> IF shown.children THEN path ELSE "/",
          token |-> shown.token]
    ELSE [location |-> path, token |-> token]

\* the address bar, a link or a reload
Visit(path) ==
    /\ location' = App(path, localStorage, Today).location
    /\ localStorage' = App(path, localStorage, Today).token
    /\ UNCHANGED offRoute

\* LoginPage.onSubmit answered with access_token: setItem, jwtDecode,
\* navigate by role; an unknown role or a throw of jwtDecode leaves
\* the page
Login(access_token) ==
    LET path == IF access_token.decodes /\ access_token.role \in Roles
                THEN "/" \o access_token.role
                ELSE location
    IN
    /\ location = "/"
    /\ location' = App(path, access_token, Today).location
    /\ localStorage' = App(path, access_token, Today).token
    /\ UNCHANGED offRoute

\* handleLogout of the three dashboards
handleLogout ==
    /\ location \in Dashboards
    /\ localStorage' = NoToken
    /\ location' = "/"
    /\ UNCHANGED offRoute

NextRoutes ==
    \/ Tick
    \/ \E path \in Paths : Visit(path)
    \/ \E access_token \in Tokens : Login(access_token)
    \/ handleLogout

SpecRoutes == Init /\ [][NextRoutes]_vars

----------------------------------------------------------------------------
(* UploadModal: the form of the document upload *)

\* what the upload form does not touch
offUpload == <<markDoneModal, ruleModal, localStorage, location>>

MAX_FILE_BYTES == 5 * 1024 * 1024

Files == { [name |-> "licence.pdf", size |-> MAX_FILE_BYTES],
           [name |-> "scan.png", size |-> MAX_FILE_BYTES + 1] }

\* requests the browser keeps open at once
MaxPending == 2

\* the file picker with Cancel and Upload is rendered: no result yet, or a
\* FAILED one; otherwise the result view with its Close button
PickerShown(m) ==
    IF m.result = NoResponse THEN TRUE ELSE m.result.status = "FAILED"

\* the Upload button of a row
OpenUpload(cid) ==
    /\ signedUp
    /\ ~uploadModal.open
    /\ UploadOffered(compliance_calendar[cid])
    /\ uploadModal' = [UploadClosed EXCEPT !.open = TRUE, !.calendarId = cid]
    /\ UNCHANGED <<server, response, offUpload>>

\* the input is disabled while loading
handleFileChange(chosen) ==
    /\ uploadModal.open
    /\ PickerShown(uploadModal)
    /\ ~uploadModal.loading
    /\ uploadModal' =
            IF chosen.size > MAX_FILE_BYTES
            THEN [uploadModal EXCEPT !.fileError = "File is too large",
                                     !.file = NoFile]
            ELSE [uploadModal EXCEPT !.fileError = "", !.apiError = "",
                                     !.file = chosen]
    /\ UNCHANGED <<server, response, offUpload>>

\* variant: the Upload button stays enabled while a request is loading
UploadEnabled_whileLoading(m) == PickerShown(m) /\ m.file # NoFile

\* the Upload button: disabled={loading || !file}
UploadEnabled(m) == PickerShown(m) /\ ~m.loading /\ m.file # NoFile

\* handleUpload up to the request
handleUpload ==
    /\ uploadModal.open
    /\ UploadEnabled(uploadModal)
    /\ uploadModal.pending < MaxPending
    /\ uploadModal' = [uploadModal EXCEPT
            !.apiError = "", !.loading = TRUE,
            !.pending = uploadModal.pending + 1]
    /\ UNCHANGED <<server, response, offUpload>>

\* a request of the form waits for the server
UploadRequested == uploadModal.pending > 0 /\ response.kind # "upload"

\* the POST is answered: setResult(res.data), setLoading(false)
UploadRespond ==
    /\ uploadModal.open
    /\ uploadModal.pending > 0
    /\ response.kind = "upload"
    /\ uploadModal' = [uploadModal EXCEPT
            !.result = response, !.loading = FALSE,
            !.pending = uploadModal.pending - 1]
    /\ response' = NoResponse
    /\ UNCHANGED <<server, offUpload>>

\* the POST fails before the handler ran: setApiError(...),
\* setLoading(false)
UploadFail ==
    /\ uploadModal.open
    /\ UploadRequested
    /\ uploads[1].pc = "idle"
    /\ uploadModal' = [uploadModal EXCEPT
            !.apiError = "Upload failed. Please try again.",
            !.loading = FALSE, !.pending = uploadModal.pending - 1]
    /\ UNCHANGED <<server, response, offUpload>>

\* backdrop, cross and Cancel are off while loading; the Close button of
\* the result view has no such guard
UploadClosable(m) == IF m.loading THEN ~PickerShown(m) ELSE TRUE

\* handleClose: if (result) onSuccess?.(); else onClose?.()
handleClose(m) == IF m.result # NoResponse THEN "onSuccess" ELSE "onClose"

\* the dashboard's two callbacks: both unmount the modal, onSuccess also
\* calls fetchDashboard
UploadClose ==
    /\ uploadModal.open
    /\ UploadClosable(uploadModal)
    /\ uploadModal' = UploadClosed
    /\ response' = IF handleClose(uploadModal) = "onSuccess"
                   THEN [kind |-> "dashboard",
                         rules |-> DashboardRows(compliance_calendar, Today),
                         summary |-> score(compliance_calendar,
                                           compliance_rules, Today)]
                   ELSE response
    /\ UNCHANGED <<server, offUpload>>

\* the form and the handler that serves its requests
NextUploadModal ==
    \/ Signup
    \/ \E cid \in CalendarIds : OpenUpload(cid)
    \/ \E chosen \in Files : handleFileChange(chosen)
    \/ handleUpload
    \/ \E cid \in CalendarIds :
            /\ UploadRequested
            /\ cid = uploadModal.calendarId
            /\ UploadStart(1, cid)
    \/ UploadMarkOld(1)
    \/ UploadInsert(1)
    \/ \E text \in OcrTexts, d \in DocDates : UploadVerify(1, text, d)
    \/ UploadRespond
    \/ UploadFail
    \/ UploadClose

SpecUploadModal == Init /\ [][NextUploadModal]_vars

----------------------------------------------------------------------------
(* RuleModal: the tag selectors of the rule form *)

\* what the selectors do not touch
offRule == <<server, response, markDoneModal, uploadModal, localStorage,
             location>>

INDUSTRIES == << "AI", "IT", "Transport", "ALL" >>
STATES == << "Gujarat", "Maharashtra", "Rajasthan", "Goa", "ALL" >>
COMP_TYPES == << "Pvt Ltd", "Public Ltd", "ALL" >>

\* value.filter((v) => v !== tag)
RECURSIVE filterOut(_, _)
filterOut(value, tag) ==
    IF value = << >> THEN << >>
    ELSE (IF Head(value) = tag THEN << >> ELSE << Head(value) >>)
         \o filterOut(Tail(value), tag)

\* value.includes(opt)
includes(value, opt) == \E i \in DOMAIN value : value[i] = opt

\* variant: the sentinel is not removed when a tag is selected
toggle_keepsAll(value, opt) ==
    IF opt = "ALL" THEN << "ALL" >>
    ELSE IF includes(value, opt) THEN filterOut(value, opt)
    ELSE Append(value, opt)

\* CheckboxGroup.toggle: the value passed to onChange
toggle(value, opt) ==
    IF opt = "ALL" THEN << "ALL" >>
    ELSE LET next == filterOut(value, "ALL") IN
         IF includes(next, opt) THEN filterOut(next, opt)
         ELSE Append(next, opt)

\* the modal is opened for a new rule: reset to the defaults
OpenRuleModal ==
    /\ ruleModal' = RuleModalDefaults
    /\ UNCHANGED offRule

ToggleIndustry(opt) ==
    /\ ruleModal' = [ruleModal EXCEPT
            !.industry_type = toggle(ruleModal.industry_type, opt)]
    /\ UNCHANGED offRule

ToggleState(opt) ==
    /\ ruleModal' = [ruleModal EXCEPT
            !.applicable_states = toggle(ruleModal.applicable_states, opt)]
    /\ UNCHANGED offRule

ToggleCompanyType(opt) ==
    /\ ruleModal' = [ruleModal EXCEPT
            !.company_type = toggle(ruleModal.company_type, opt)]
    /\ UNCHANGED offRule

NextRuleModal ==
    \/ OpenRuleModal
    \/ \E opt \in Range(INDUSTRIES) : ToggleIndustry(opt)
    \/ \E opt \in Range(STATES) : ToggleState(opt)
    \/ \E opt \in Range(COMP_TYPES) : ToggleCompanyType(opt)

SpecRuleModal == Init /\ [][NextRuleModal]_vars

Next ==
    \/ Signup
    \/ SignupRejected
    \/ Tick
    \/ \E u \in Uploaders, cid \in CalendarIds : UploadStart(u, cid)
    \/ \E u \in Uploaders : UploadMarkOld(u)
    \/ \E u \in Uploaders : UploadInsert(u)
    \/ \E u \in Uploaders, text \in OcrTexts, d \in DocDates :
            UploadVerify(u, text, d)
    \/ \E cid \in CalendarIds, rd \in DocDates,
          ed \in ExpiryDates \cup {NoDate}, perm \in BOOLEAN :
            MarkDone(cid, rd, ed, perm)
    \/ \E d \in DocIds : Remove(d, "emergency")
    \/ \E rule_id \in DOMAIN compliance_rules : History(rule_id)
    \/ Read
    \/ \E cid \in CalendarIds : OpenMarkDone(cid)
    \/ \E text \in Notes \cup {""} : setNote(text)
    \/ \E d \in DocDates : setRenewalDate(d)
    \/ SelectDefaultExpiry
    \/ SelectCustomExpiry
    \/ \E d \in ExpiryDates : setExpiryDate(d)
    \/ MarkDoneSubmit
    \/ \E permanent \in BOOLEAN : MarkDoneRespond(permanent)
    \/ MarkDoneFail
    \/ MarkDoneClose
    \/ \E values \in RuleForms \cup {GujaratShopsAct},
          target \in {0} \cup EditedRules : SaveRule(values, target)
    \/ \E employee_count \in EmployeeCounts : SignupWith(employee_count)
    \/ \E doc_id \in CalendarIds, by \in Auditors, reason \in FlagReasons :
            RaiseFlag(doc_id, by, reason)
    \/ \E flag_id \in DOMAIN audit_flags, by \in Admins :
            ResolveFlag(flag_id, by)
    \/ \E path \in Paths : Visit(path)
    \/ \E access_token \in Tokens : Login(access_token)
    \/ handleLogout
    \/ \E cid \in CalendarIds : OpenUpload(cid)
    \/ \E chosen \in Files : handleFileChange(chosen)
    \/ handleUpload
    \/ UploadRespond
    \/ UploadFail
    \/ UploadClose
    \/ OpenRuleModal
    \/ \E opt \in Range(INDUSTRIES) : ToggleIndustry(opt)
    \/ \E opt \in Range(STATES) : ToggleState(opt)
    \/ \E opt \in Range(COMP_TYPES) : ToggleCompanyType(opt)

Spec == Init /\ [][Next]_vars

\* the calendar lifecycle: every operation that touches compliance_calendar
NextCalendar ==
    \/ Signup
    \/ Tick
    \/ \E u \in Uploaders, cid \in CalendarIds : UploadStart(u, cid)
    \/ \E u \in Uploaders : UploadMarkOld(u)
    \/ \E u \in Uploaders : UploadInsert(u)
    \/ \E u \in Uploaders, text \in OcrTexts, d \in DocDates :
            UploadVerify(u, text, d)
    \/ \E cid \in CalendarIds, rd \in DocDates,
          ed \in ExpiryDates \cup {NoDate}, perm \in BOOLEAN :
            MarkDone(cid, rd, ed, perm)
    \/ Read

SpecCalendar == Init /\ [][NextCalendar]_vars

\* the signup, repeated, around the operations without a document
NextSignup ==
    \/ Signup
    \/ SignupRejected
    \/ Tick
    \/ \E cid \in CalendarIds, rd \in DocDates,
          ed \in ExpiryDates \cup {NoDate}, perm \in BOOLEAN :
            MarkDone(cid, rd, ed, perm)
    \/ Read

SpecSignup == Init /\ [][NextSignup]_vars

\* the version store: every operation that touches compliance_documents
NextDocs ==
    \/ Signup
    \/ \E u \in Uploaders, cid \in CalendarIds : UploadStart(u, cid)
    \/ \E u \in Uploaders : UploadMarkOld(u)
    \/ \E u \in Uploaders : UploadInsert(u)
    \/ \E u \in Uploaders, text \in OcrTexts, d \in DocDates :
            UploadVerify(u, text, d)
    \/ \E d \in DocIds : Remove(d, "emergency")
    \/ \E rule_id \in DOMAIN compliance_rules : History(rule_id)

SpecDocs == Init /\ [][NextDocs]_vars

----------------------------------------------------------------------------
(* The calculators, called on their own *)

\* rules as the due date calculation sees them
DueRuleShapes ==
    { [rule_id |-> 1, industry_type |-> ALL, applicable_states |-> ALL,
       company_type |-> ALL, min_employees |-> 0, max_employees |-> 999999,
       frequency_months |-> f, fixed_due_day |-> fx[1],
       fixed_due_month |-> fx[2],
       document_required |-> TRUE, scope |-> "Company",
       penalty_impact |-> "High", is_active |-> TRUE] :
      f \in {1, 12},
      fx \in { <<0, 0>>, <<20, 2>>, <<20, 10>>, <<20, 0>>, <<0, 2>> } }

\* created_at of the companies the calculation is called for
CreatedDates == { MkDate(2026, 1, 1), MkDate(2026, 1, 31) }

\* the due date calculation for a rule, at an evaluation date
CallComputeNextDue(rule, created_at, ocr_extracted_date, today) ==
    /\ response' = [kind |-> "next_due", rule |-> rule,
                    created_at |-> created_at,
                    ocr_extracted_date |-> ocr_extracted_date,
                    today |-> today,
                    next_due |-> computeNextDue(rule,
                                    [company EXCEPT !.created_at = created_at],
                                    ocr_extracted_date, YearOf(today))]
    /\ UNCHANGED <<client, panels, company, signedUp, compliance_calendar,
                   compliance_documents, locked, uploads, now>>

\* the signup form: the branch rows may be blank, repeated, or name the HQ
Forms ==
    { [industries |-> ind, company_type |-> "Pvt Ltd", hq_state |-> hq,
       subscription |-> sub, branches |-> br, employee_count |-> 50] :
      ind \in { {"IT"}, {"Transport"} },
      hq \in { "Gujarat", "Maharashtra" },
      sub \in { "Basic", "Enterprise" },
      br \in { << "" >>, << "Maharashtra" >>, << "Gujarat", "Maharashtra" >>,
               << "Goa", "", "Goa" >>, << "Rajasthan", "Goa", "Maharashtra" >> } }

RECURSIVE FilterBoolean(_)
FilterBoolean(branches) ==
    IF branches = << >> THEN << >>
    ELSE (IF Head(branches) = "" THEN << >> ELSE << Head(branches) >>)
         \o FilterBoolean(Tail(branches))

\* CompanySignup.handleSubmit: the payload, as the company row it becomes
handleSubmit(form) ==
    [company_id |-> 1, industry_type |-> form.industries,
     company_type |-> {form.company_type}, hq_state |-> form.hq_state,
     branch_states |-> IF form.subscription = "Enterprise"
                       THEN FilterBoolean(form.branches) ELSE << >>,
     employee_count |-> form.employee_count,
     subscription |-> form.subscription,
     created_at |-> MkDate(2026, 1, 1)]

\* auto-match and calendar construction for a submitted form
CallBuild(form, today) ==
    LET c == handleSubmit(form) IN
    /\ response' = [kind |-> "build", form |-> form, company |-> c,
                    matched |-> Match(c),
                    entries |-> Build(Match(c), c, YearOf(today))]
    /\ UNCHANGED <<client, panels, company, signedUp, compliance_calendar,
                   compliance_documents, locked, uploads, now>>

\* rules as the auto-matching query sees them
MatchRuleShapes ==
    { [rule_id |-> 1, industry_type |-> ind, applicable_states |-> st,
       company_type |-> ct, min_employees |-> emp[1],
       max_employees |-> emp[2],
       frequency_months |-> 12, fixed_due_day |-> 0, fixed_due_month |-> 0,
       document_required |-> TRUE, scope |-> "Company",
       penalty_impact |-> "High", is_active |-> act] :
      ind \in { ALL, {"AI", "IT"}, {} },
      st \in { ALL, {"Maharashtra"}, {} },
      ct \in { ALL, {"Public Ltd"} },
      emp \in { <<0, 999999>>, <<50, 50>>, <<51, 999999>>, <<0, 49>> },
      act \in BOOLEAN }

\* the forms the query is called for
MatchForms ==
    { f \in Forms : /\ f.hq_state = "Gujarat"
                    /\ f.branches \in { << "" >>, << "Gujarat", "Maharashtra" >> } }

\* the auto-matching query on a catalogue of one rule
CallMatch(rule, form) ==
    LET c == handleSubmit(form) IN
    /\ response' = [kind |-> "match", rule |-> rule, company |-> c,
                    matched |-> MatchIn(<< rule >>, c)]
    /\ UNCHANGED <<client, panels, company, signedUp, compliance_calendar,
                   compliance_documents, locked, uploads, now>>

\* a catalogue with one rule of each penalty impact
ScoreRules ==
    [ i \in 1..4 |->
        [Rules[1] EXCEPT !.rule_id = i,
            !.penalty_impact = << "Imprisonment", "High", "Medium", "Low" >>[i]] ]

\* the date the scores are computed on, and calendar rows around it
ScoreDay == MkDate(2026, 3, 1)

ScoreEntries ==
    { [company_id |-> 1, rule_id |-> rid, branch_state |-> "null",
       due_date |-> due, status |-> st, ocr_verified |-> FALSE,
       ocr_result |-> {}, next_due_date |-> NoDate] :
      rid \in 1..4,
      due \in { MkDate(2026, 2, 20), MkDate(2026, 3, 20) },
      st \in { "PENDING", "COMPLETED", "OVERDUE-PASS", "FAILED" } }

\* the scores of a calendar of at most two rows
CallScore(entries) ==
    /\ response' = [kind |-> "score", entries |-> entries,
                    summary |-> score(entries, ScoreRules, ScoreDay)]
    /\ UNCHANGED <<client, panels, company, signedUp, compliance_calendar,
                   compliance_documents, locked, uploads, now>>

\* rules without a document, with and without a fixed deadline
MarkDoneRuleShapes ==
    { [r EXCEPT !.document_required = FALSE] :
        r \in { x \in DueRuleShapes :
                    /\ x.frequency_months = 1
                    /\ << x.fixed_due_day, x.fixed_due_month >>
                            \in { <<0, 0>>, <<20, 2>> } } }

\* the next due date of a manual completion, for a rule of either shape
CallMarkdoneNextDue(rule, renewal_date, expiry_date, permanent) ==
    /\ permanent => expiry_date = NoDate
    /\ response' = [kind |-> "markdone_due", rule |-> rule,
                    renewal_date |-> renewal_date,
                    expiry_date |-> expiry_date, permanent |-> permanent,
                    next_due_date |-> markdoneNextDue(rule, renewal_date,
                                        expiry_date, permanent)]
    /\ UNCHANGED <<client, panels, company, signedUp, compliance_calendar,
                   compliance_documents, locked, uploads, now>>

\* the manual completion: the form, its request, and the calculation
NextMarkDone ==
    \/ Signup
    \/ Tick
    \/ \E cid \in CalendarIds : OpenMarkDone(cid)
    \/ \E text \in Notes \cup {""} : setNote(text)
    \/ \E d \in DocDates : setRenewalDate(d)
    \/ SelectDefaultExpiry
    \/ SelectCustomExpiry
    \/ \E d \in ExpiryDates : setExpiryDate(d)
    \/ MarkDoneSubmit
    \/ \E permanent \in BOOLEAN : MarkDoneRespond(permanent)
    \/ MarkDoneFail
    \/ MarkDoneClose
    \/ \E rule \in MarkDoneRuleShapes, rd \in DocDates,
          ed \in ExpiryDates \cup {NoDate}, permanent \in BOOLEAN :
            CallMarkdoneNextDue(rule, rd, ed, permanent)

SpecMarkDone == Init /\ [][NextMarkDone]_vars

\* the calendars built once the catalogue holds the rule of one state
NextBranch ==
    \/ SaveRule(GujaratShopsAct, 0)
    \/ \E form \in Forms, i \in DOMAIN Clock : CallBuild(form, Clock[i])

SpecBranch == Init /\ [][NextBranch]_vars

NextDue ==
    \/ \E rule \in DueRuleShapes, created_at \in CreatedDates,
          ocr \in DocDates \cup {NoDate}, i \in DOMAIN Clock :
            CallComputeNextDue(rule, created_at, ocr, Clock[i])

SpecDue == Init /\ [][NextDue]_vars

NextMatch ==
    \/ \E rule \in MatchRuleShapes, form \in MatchForms : CallMatch(rule, form)
    \/ \E form \in Forms, i \in DOMAIN Clock : CallBuild(form, Clock[i])

SpecMatch == Init /\ [][NextMatch]_vars

NextScore ==
    \/ CallScore(<< >>)
    \/ \E e \in ScoreEntries : CallScore(<< e >>)
    \/ \E e1, e2 \in ScoreEntries : CallScore(<< e1, e2 >>)

SpecScore == Init /\ [][NextScore]_vars

----------------------------------------------------------------------------
(* Helpers of the properties *)

AllPairs == { Pair(compliance_calendar[i]) : i \in CalendarIds }

CurrentDocs(docs, pair) == { i \in DocsOf(docs, pair) : docs[i].is_current }

VersionsOf(docs, pair) == { docs[i].version_number : i \in DocsOf(docs, pair) }

\* uploads between "calculate version" and "insert" for a pair
Promoting(pair) ==
    { u \in Uploaders : /\ uploads[u].pc \in {"mark", "insert"}
                        /\ Pair(compliance_calendar[uploads[u].calendar_id]) = pair }

\* uploads that have received a version number for a pair
InFlight(pair) ==
    { u \in Uploaders : /\ uploads[u].pc # "idle"
                        /\ Pair(compliance_calendar[uploads[u].calendar_id]) = pair }

----------------------------------------------------------------------------
(* C1: two concurrent uploads for the same (company, rule) receive distinct
   version numbers in every interleaving of their steps, no two stored
   versions of a pair share a number, and once no upload of the pair is
   between "calculate version" and "insert" exactly one version of the
   pair is current. *)
C1_ConcurrentUploads ==
    \A pair \in AllPairs :
        /\ \A u, v \in InFlight(pair) :
                u # v => uploads[u].version # uploads[v].version
        /\ \A i, j \in DocsOf(compliance_documents, pair) :
                i # j => compliance_documents[i].version_number
                         # compliance_documents[j].version_number
        /\ (Promoting(pair) = {} /\ DocsOf(compliance_documents, pair) # {})
                => Cardinality(CurrentDocs(compliance_documents, pair)) = 1

\* both uploaders are past the promotion of the same pair, both still running
C1_Witness ==
    \E pair \in AllPairs :
        /\ InFlight(pair) = Uploaders
        /\ \A u \in Uploaders : uploads[u].pc = "ocr"
        /\ Cardinality(DocsOf(compliance_documents, pair)) >= 2

(* C2: in every reachable state no (company, rule) pair has two current
   versions, and right after the insert step of a promotion the inserted
   version is the only current version of its pair. *)
NoTwoCurrent ==
    \A pair \in AllPairs :
        Cardinality(CurrentDocs(compliance_documents, pair)) <= 1

PromotedIsOnlyCurrent ==
    \A u \in Uploaders :
        UploadInsert(u) =>
            CurrentDocs(compliance_documents',
                        Pair(compliance_calendar[uploads[u].calendar_id]))
                = { Len(compliance_documents') }

C2_SingleCurrent == [](NoTwoCurrent) /\ [][PromotedIsOnlyCurrent]_vars

\* a pair with an archived version, a current one, and a removed version
C2_Witness ==
    \E pair \in AllPairs :
        /\ Cardinality(DocsOf(compliance_documents, pair)) >= 2
        /\ Cardinality(CurrentDocs(compliance_documents, pair)) = 1
        /\ \E i \in DocsOf(compliance_documents, pair) :
                compliance_documents[i].is_deleted

(* C3: the stored version numbers of a pair are exactly 1..N for its N
   promotions, the next version is N + 1 (1 when there is none), and when no
   promotion of the pair is in progress and N > 0 exactly one version is
   current. *)
C3_GapFreeVersions ==
    \A pair \in AllPairs :
        LET n == Cardinality(DocsOf(compliance_documents, pair)) IN
        /\ VersionsOf(compliance_documents, pair) = 1..n
        /\ Promoting(pair) = {} =>
                /\ get_next_version(compliance_documents, pair) = n + 1
                /\ n > 0 =>
                     \E i \in DocsOf(compliance_documents, pair) :
                        /\ compliance_documents[i].version_number = n
                        /\ CurrentDocs(compliance_documents, pair) = {i}

\* a pair after two promotions, the first version removed
C3_Witness ==
    \E pair \in AllPairs :
        /\ Promoting(pair) = {}
        /\ VersionsOf(compliance_documents, pair) = 1..2
        /\ \E i \in DocsOf(compliance_documents, pair) :
                /\ compliance_documents[i].is_deleted
                /\ compliance_documents[i].version_number = 2


----------------------------------------------------------------------------
(* Steps of the properties on the calendar *)

\* the row an upload in its OCR step is about
UploadRow(u) == compliance_calendar[uploads[u].calendar_id]

SuccessStatus == {"COMPLETED", "OVERDUE-PASS"}

(* C4: an upload whose OCR text misses a required keyword sets the row to
   FAILED, records the missing keywords in ocr_result, and leaves due_date
   and next_due_date as they were (NoDate on a row still PENDING). *)
C4_FailedUpload ==
    [][\A u \in Uploaders, text \in OcrTexts, d \in DocDates :
        (UploadVerify(u, text, d) /\ RequiredKeywords \ text # {}) =>
            LET cid == uploads[u].calendar_id IN
            /\ compliance_calendar'[cid].status = "FAILED"
            /\ compliance_calendar'[cid].ocr_result = RequiredKeywords \ text
            /\ compliance_calendar'[cid].due_date
                    = compliance_calendar[cid].due_date
            /\ compliance_calendar'[cid].next_due_date
                    = compliance_calendar[cid].next_due_date
            /\ compliance_calendar[cid].status = "PENDING"
                    => compliance_calendar'[cid].next_due_date = NoDate
    ]_vars

\* a first upload has failed: FAILED, keywords recorded, dates untouched
C4_Witness ==
    \E cid \in CalendarIds :
        LET row == compliance_calendar[cid] IN
        /\ row.status = "FAILED"
        /\ row.ocr_result = {"valid"}
        /\ row.next_due_date = NoDate
        /\ row.due_date = NewEntry(company, RuleOf(row.rule_id),
                                   row.branch_state, 2026).due_date

(* C5: an upload whose required keywords are all present is COMPLETED when
   the document's date is on or before the row's due_date at that moment and
   OVERDUE-PASS when it is after it; it is never FAILED. *)
C5_ValidUploadVerdict ==
    [][\A u \in Uploaders, text \in OcrTexts, d \in DocDates :
        (UploadVerify(u, text, d) /\ RequiredKeywords \subseteq text) =>
            LET cid == uploads[u].calendar_id IN
            /\ d <= compliance_calendar[cid].due_date
                    => compliance_calendar'[cid].status = "COMPLETED"
            /\ d > compliance_calendar[cid].due_date
                    => compliance_calendar'[cid].status = "OVERDUE-PASS"
            /\ compliance_calendar'[cid].status # "FAILED"
    ]_vars

\* a valid first document dated exactly on the due date has just been
\* accepted as COMPLETED
C5_Witness ==
    /\ response.kind = "upload"
    /\ response.status = "COMPLETED"
    /\ Len(compliance_documents) = 1
    /\ LET row == compliance_calendar[compliance_documents[1].calendar_id] IN
        /\ row.status = "COMPLETED"
        /\ response.issue_date
              = NewEntry(company, RuleOf(row.rule_id),
                         row.branch_state, YearOf(Today)).due_date

(* C6: after an upload or a non-permanent manual completion that ends in
   COMPLETED or OVERDUE-PASS, next_due_date is the computed next cycle date
   (computeNextDue on the document's or the issue date; the custom expiry is
   what a manual completion with one is computed from) and due_date equals
   next_due_date. *)
C6_DueDateAdvances ==
    [][/\ \A u \in Uploaders, text \in OcrTexts, d \in DocDates :
            (UploadVerify(u, text, d)
             /\ compliance_calendar'[uploads[u].calendar_id].status
                    \in SuccessStatus) =>
                LET cid == uploads[u].calendar_id
                    new == compliance_calendar'[cid] IN
                /\ new.next_due_date
                      = computeNextDue(RuleOf(new.rule_id), company, d,
                                       YearOf(Today))
                /\ new.due_date = new.next_due_date
       /\ \A cid \in CalendarIds, rd \in DocDates,
             ed \in ExpiryDates \cup {NoDate} :
            MarkDone(cid, rd, ed, FALSE) =>
                LET new == compliance_calendar'[cid] IN
                /\ new.status \in SuccessStatus
                /\ new.next_due_date # NoDate
                /\ ed = NoDate =>
                     new.next_due_date
                       = AddMonths(rd, RuleOf(new.rule_id).frequency_months)
                /\ new.due_date = new.next_due_date
    ]_vars

\* a document row and a mark-done row have both moved to their next cycle
C6_Witness ==
    /\ \E cid \in CalendarIds :
        LET row == compliance_calendar[cid] IN
        /\ UploadOffered(row)
        /\ row.status \in SuccessStatus
        /\ row.due_date = row.next_due_date
        /\ row.due_date # NewEntry(company, RuleOf(row.rule_id),
                                   row.branch_state, 2026).due_date
    /\ \E cid \in CalendarIds :
        LET row == compliance_calendar[cid] IN
        /\ MarkDoneOffered(row)
        /\ row.status \in SuccessStatus
        /\ row.due_date = row.next_due_date

(* C7: no stored status is terminal.  Whatever the status of a row, a further
   upload is accepted on a document row (an uploader being idle, the pair not
   under promotion, the store below its bound), a manual completion is
   accepted on the other rows, and an upload in its OCR step can end in
   FAILED, in COMPLETED when a document date on or before the due date
   exists, and in OVERDUE-PASS when one after it exists. *)
C7_NoTerminalStatus ==
    \A cid \in CalendarIds :
        LET row == compliance_calendar[cid]
            doc == RuleOf(row.rule_id).document_required
        IN
        /\ ( /\ doc
             /\ \E u \in Uploaders : uploads[u].pc = "idle"
             /\ Pair(row) \notin locked
             /\ Len(compliance_documents) + Cardinality(Reserved) < MaxDocs )
              => ENABLED (\E u \in Uploaders : UploadStart(u, cid))
        /\ ~doc => ENABLED (\E rd \in DocDates : MarkDone(cid, rd, NoDate, FALSE))
        /\ \A u \in Uploaders :
              (uploads[u].pc = "ocr" /\ uploads[u].calendar_id = cid) =>
                /\ ENABLED (\E text \in OcrTexts, d \in DocDates :
                        /\ UploadVerify(u, text, d)
                        /\ compliance_calendar'[cid].status = "FAILED")
                /\ (\E d \in DocDates : d <= row.due_date) =>
                     ENABLED (\E text \in OcrTexts, d \in DocDates :
                        /\ UploadVerify(u, text, d)
                        /\ compliance_calendar'[cid].status = "COMPLETED")
                /\ (\E d \in DocDates : d > row.due_date) =>
                     ENABLED (\E text \in OcrTexts, d \in DocDates :
                        /\ UploadVerify(u, text, d)
                        /\ compliance_calendar'[cid].status = "OVERDUE-PASS")

\* a document row that was done has been re-uploaded and is now FAILED,
\* beside a manually completed row that is OVERDUE-PASS
C7_Witness ==
    \E cid \in CalendarIds :
        LET row == compliance_calendar[cid] IN
        /\ row.status = "FAILED"
        /\ row.next_due_date # NoDate
        /\ \E i, j \in DocIds :
              /\ compliance_documents[i].calendar_id = cid
              /\ compliance_documents[j].calendar_id = cid
              /\ compliance_documents[i].ocr_status \in SuccessStatus
              /\ compliance_documents[j].ocr_status = "FAILED"
        /\ \E k \in CalendarIds :
              /\ compliance_calendar[k].status = "OVERDUE-PASS"
              /\ MarkDoneOffered(compliance_calendar[k])

(* C8 as stated: a FAILED row changes status only by an upload on it or a
   manual completion, and a re-upload on it with every keyword present and an
   issue date before due_date ends COMPLETED with
   next_due_date = issue_date + frequency_months. *)
C8_AsStated ==
    [][\A u \in Uploaders, text \in OcrTexts, d \in DocDates :
        ( /\ UploadVerify(u, text, d)
          /\ UploadRow(u).status = "FAILED"
          /\ RequiredKeywords \subseteq text
          /\ d < UploadRow(u).due_date ) =>
            LET new == compliance_calendar'[uploads[u].calendar_id] IN
            /\ new.status = "COMPLETED"
            /\ new.next_due_date
                  = AddMonths(d, RuleOf(new.rule_id).frequency_months)
    ]_vars

(* C8: a FAILED row changes status only by an upload on it or a manual
   completion of it (never by the clock or a read), and a re-upload on it
   with every keyword present and an issue date before due_date ends
   COMPLETED with next_due_date = issue_date + frequency_months when the
   rule has no fixed deadline, and the rule's fixed day and month of the
   current year when it has one. *)
C8_FailedRecoverable ==
    [][/\ \A cid \in CalendarIds :
            ( /\ compliance_calendar[cid].status = "FAILED"
              /\ compliance_calendar'[cid].status # "FAILED" ) =>
                \/ \E u \in Uploaders, text \in OcrTexts, d \in DocDates :
                      UploadVerify(u, text, d) /\ uploads[u].calendar_id = cid
                \/ \E rd \in DocDates, ed \in ExpiryDates \cup {NoDate},
                      perm \in BOOLEAN : MarkDone(cid, rd, ed, perm)
       /\ \A u \in Uploaders, text \in OcrTexts, d \in DocDates :
            ( /\ UploadVerify(u, text, d)
              /\ UploadRow(u).status = "FAILED"
              /\ RequiredKeywords \subseteq text
              /\ d < UploadRow(u).due_date ) =>
                LET new == compliance_calendar'[uploads[u].calendar_id]
                    rule == RuleOf(new.rule_id)
                IN
                /\ new.status = "COMPLETED"
                /\ new.next_due_date
                      = IF rule.fixed_due_day # 0 /\ rule.fixed_due_month # 0
                        THEN MkDate(YearOf(Today), rule.fixed_due_month,
                                    rule.fixed_due_day)
                        ELSE AddMonths(d, rule.frequency_months)
    ]_vars

\* version 1 failed, version 2 dated before the due date recovered the row
\* of a rule without a fixed deadline
C8_Witness ==
    /\ response.kind = "upload"
    /\ response.status = "COMPLETED"
    /\ Len(compliance_documents) = 2
    /\ compliance_documents[1].ocr_status = "FAILED"
    /\ compliance_documents[2].ocr_status = "COMPLETED"
    /\ compliance_documents[1].calendar_id = compliance_documents[2].calendar_id
    /\ LET row == compliance_calendar[compliance_documents[2].calendar_id]
           rule == RuleOf(row.rule_id)
       IN
       /\ rule.fixed_due_day = 0
       /\ response.issue_date
             < NewEntry(company, rule, row.branch_state, YearOf(Today)).due_date
       /\ row.next_due_date
             = AddMonths(response.issue_date, rule.frequency_months)

StoredStatuses == {"PENDING", "COMPLETED", "OVERDUE-PASS", "FAILED"}

(* C9: in every reachable state the stored status of every calendar row is
   one of PENDING, COMPLETED, OVERDUE-PASS, FAILED; OVERDUE is never stored. *)
C9_StoredStatus ==
    \A cid \in CalendarIds : compliance_calendar[cid].status \in StoredStatuses

\* a read has just presented a row as OVERDUE whose stored status is PENDING,
\* beside rows stored FAILED and OVERDUE-PASS
C9_Witness ==
    /\ response.kind = "dashboard"
    /\ \E i \in CalendarIds :
          /\ response.rules[i] = "OVERDUE"
          /\ compliance_calendar[i].status = "PENDING"
    /\ \E i \in CalendarIds : compliance_calendar[i].status = "FAILED"
    /\ \E i \in CalendarIds : compliance_calendar[i].status = "OVERDUE-PASS"

(* C10: a read presents as OVERDUE every row whose due_date is before the
   current date and whose stored status is PENDING, COMPLETED or OVERDUE-PASS
   (a newer submission would have moved due_date), presents every other row
   with its stored status, gives rows of equal (status, due_date) the same
   presentation, and changes no stored field. *)
C10_DerivedOverdue ==
    [][Read =>
        /\ \A i \in CalendarIds :
              LET row == compliance_calendar[i] IN
              /\ ( row.due_date < Today
                   /\ row.status \in {"PENDING", "COMPLETED", "OVERDUE-PASS"} )
                    => response'.rules[i] = "OVERDUE"
              /\ ( row.due_date >= Today \/ row.status = "FAILED" )
                    => response'.rules[i] = row.status
        /\ \A i, j \in CalendarIds :
              ( /\ compliance_calendar[i].status = compliance_calendar[j].status
                /\ compliance_calendar[i].due_date
                      = compliance_calendar[j].due_date )
                => response'.rules[i] = response'.rules[j]
        /\ compliance_calendar' = compliance_calendar
        /\ compliance_documents' = compliance_documents
    ]_vars

\* a read has just presented a past-due COMPLETED row as OVERDUE and a FAILED
\* row as FAILED
C10_Witness ==
    /\ response.kind = "dashboard"
    /\ \E i \in CalendarIds :
          /\ compliance_calendar[i].status = "COMPLETED"
          /\ compliance_calendar[i].due_date < Today
          /\ response.rules[i] = "OVERDUE"
    /\ \E i \in CalendarIds :
          /\ compliance_calendar[i].status = "FAILED"
          /\ response.rules[i] = "FAILED"

HasFixedDeadline(rule) == rule.fixed_due_day # 0 /\ rule.fixed_due_month # 0

(* C11: computeNextDue returns the first applicable source in priority
   order: the fixed deadline when fixed_due_day and fixed_due_month are both
   set, whatever date the document carries; otherwise the extracted date +
   frequency_months when a date is supplied; otherwise created_at +
   frequency_months. *)
C11_DuePriority ==
    response.kind = "next_due" =>
        LET rule == response.rule IN
        /\ HasFixedDeadline(rule) =>
              /\ YearOf(response.next_due) = YearOf(response.today)
              /\ MonthOf(response.next_due) = rule.fixed_due_month
              /\ DayOf(response.next_due) = rule.fixed_due_day
        /\ (~HasFixedDeadline(rule) /\ response.ocr_extracted_date # NoDate) =>
              response.next_due = AddMonths(response.ocr_extracted_date,
                                            rule.frequency_months)
        /\ (~HasFixedDeadline(rule) /\ response.ocr_extracted_date = NoDate) =>
              response.next_due = AddMonths(response.created_at,
                                            rule.frequency_months)

\* a rule fixed on 20 October was computed with a document date supplied
C11_Witness ==
    /\ response.kind = "next_due"
    /\ response.rule.fixed_due_day = 20
    /\ response.rule.fixed_due_month = 10
    /\ response.ocr_extracted_date # NoDate
    /\ response.next_due = MkDate(YearOf(response.today), 10, 20)

(* C12 as stated: for a rule with a fixed deadline computeNextDue returns
   that day and month in the year of the evaluation date when that date has
   not yet passed, and in the following year when it has. *)
C12_FixedRollsForward ==
    (response.kind = "next_due" /\ HasFixedDeadline(response.rule)) =>
        LET rule == response.rule
            thisYear == MkDate(YearOf(response.today), rule.fixed_due_month,
                               rule.fixed_due_day)
            nextYear == MkDate(YearOf(response.today) + 1,
                               rule.fixed_due_month, rule.fixed_due_day)
        IN  response.next_due
              = IF thisYear >= response.today THEN thisYear ELSE nextYear

\* the positions of a rule's entries in a built calendar
EntriesOf(entries, rid) == { k \in DOMAIN entries : entries[k].rule_id = rid }

(* C13: build emits, for each matched rule, exactly one entry with
   branch_state null when the rule's scope is Company and exactly one entry
   per state of the company's effective state set when it is Branch (one
   entry, for hq_state, for a Basic company); it emits nothing for the other
   rules, and every entry is PENDING. *)
C13_BuildFanOut ==
    response.kind = "build" =>
        LET c == response.company
            entries == response.entries
        IN
        /\ \A k \in DOMAIN entries :
              /\ entries[k].status = "PENDING"
              /\ entries[k].rule_id \in response.matched
        /\ \A rid \in response.matched :
              IF RuleOf(rid).scope = "Company"
              THEN /\ Cardinality(EntriesOf(entries, rid)) = 1
                   /\ \A k \in EntriesOf(entries, rid) :
                         entries[k].branch_state = "null"
              ELSE /\ Cardinality(EntriesOf(entries, rid))
                         = Cardinality(EffectiveStates(c))
                   /\ { entries[k].branch_state : k \in EntriesOf(entries, rid) }
                         = EffectiveStates(c)
                   /\ c.subscription = "Basic" =>
                         /\ Cardinality(EntriesOf(entries, rid)) = 1
                         /\ \A k \in EntriesOf(entries, rid) :
                               entries[k].branch_state = c.hq_state

\* a Basic company whose form listed branches got one entry for its HQ from
\* the Branch rule and one entry without a state from a Company rule
C13_Witness ==
    /\ response.kind = "build"
    /\ response.company.subscription = "Basic"
    /\ Len(FilterBoolean(response.form.branches)) = 3
    /\ \E k \in DOMAIN response.entries :
          /\ RuleOf(response.entries[k].rule_id).scope = "Branch"
          /\ response.entries[k].branch_state = response.company.hq_state
    /\ \E k \in DOMAIN response.entries :
          /\ RuleOf(response.entries[k].rule_id).scope = "Company"
          /\ RuleOf(response.entries[k].rule_id).applicable_states = ALL
          /\ response.entries[k].branch_state = "null"

(* C14: for an Enterprise company a Branch rule produces one entry per
   distinct state of {hq_state} + branch_states: no state twice, hq_state
   once even when it is also listed as a branch. *)
C14_EnterpriseFanOut ==
    (response.kind = "build" /\ response.company.subscription = "Enterprise") =>
        LET c == response.company
            entries == response.entries
            states == {c.hq_state} \cup Range(c.branch_states)
        IN
        \A rid \in response.matched :
            RuleOf(rid).scope = "Branch" =>
              /\ Cardinality(EntriesOf(entries, rid)) = Cardinality(states)
              /\ \A st \in states :
                    Cardinality({ k \in EntriesOf(entries, rid) :
                                    entries[k].branch_state = st }) = 1

\* an Enterprise company that lists its HQ state among its two branch rows
\* got two entries from a Branch rule
C14_Witness ==
    /\ response.kind = "build"
    /\ response.company.subscription = "Enterprise"
    /\ Len(response.company.branch_states) = 2
    /\ \E i \in DOMAIN response.company.branch_states :
          response.company.branch_states[i] = response.company.hq_state
    /\ \E rid \in response.matched :
          /\ RuleOf(rid).scope = "Branch"
          /\ Cardinality(EntriesOf(response.entries, rid)) = 2

(* C15: a second run of the signup for the same company leaves the number of
   stored calendar rows unchanged, and in every reachable state there is at
   most one stored row per (company, rule, branch_state), branch_state null
   included. *)
C15_OneEntryPerKey ==
    [](\A i, j \in CalendarIds :
          ( /\ compliance_calendar[i].company_id
                  = compliance_calendar[j].company_id
            /\ compliance_calendar[i].rule_id = compliance_calendar[j].rule_id
            /\ compliance_calendar[i].branch_state
                  = compliance_calendar[j].branch_state ) => i = j)
    /\ [][(signedUp /\ (Signup \/ SignupRejected)) =>
            Len(compliance_calendar') = Len(compliance_calendar)]_vars

\* the signup has been submitted again after the calendar was built
C15_Witness ==
    /\ response.kind = "signup_failed"
    /\ Len(compliance_calendar) = 3
    /\ \E i \in CalendarIds : compliance_calendar[i].branch_state = "null"
    /\ \E i \in CalendarIds : compliance_calendar[i].status # "PENDING"

\* a dimension of a rule admits a company's set of tags
Admits(ruleSet, companySet) ==
    ruleSet = ALL \/ \E tag \in ruleSet : tag \in companySet

(* C16: the query selects exactly the rules that are active, whose
   [min_employees, max_employees] contains employee_count, and whose
   industry, state and company-type sets are each the ALL sentinel or share
   a tag with the company's set (for the states: hq_state alone for Basic,
   hq_state and the branch states for Enterprise); a rule with industry ALL
   is not excluded by the industry, a rule with an empty set is not
   selected. *)
C16_MatchExactly ==
    response.kind = "match" =>
        LET r == response.rule
            c == response.company
            states == IF c.subscription = "Basic" THEN {c.hq_state}
                      ELSE {c.hq_state} \cup Range(c.branch_states)
            rest == /\ r.is_active
                    /\ r.min_employees <= c.employee_count
                    /\ c.employee_count <= r.max_employees
                    /\ Admits(r.applicable_states, states)
                    /\ Admits(r.company_type, c.company_type)
        IN
        /\ (1 \in response.matched)
              <=> (rest /\ Admits(r.industry_type, c.industry_type))
        /\ r.industry_type = ALL => ((1 \in response.matched) <=> rest)
        /\ ( r.industry_type = {} \/ r.applicable_states = {}
             \/ r.company_type = {} ) => response.matched = {}

\* a rule with industry ALL, limited to Maharashtra and to exactly 50
\* employees, was selected for an Enterprise Transport company with a branch
\* there
C16_Witness ==
    /\ response.kind = "match"
    /\ response.matched = {1}
    /\ response.rule.industry_type = ALL
    /\ response.rule.applicable_states = {"Maharashtra"}
    /\ response.rule.min_employees = 50
    /\ response.company.industry_type = {"Transport"}
    /\ response.company.hq_state = "Gujarat"

RECURSIVE SeqSum(_)
SeqSum(numbers) ==
    IF numbers = << >> THEN 0 ELSE Head(numbers) + SeqSum(Tail(numbers))

\* what the scores of a call are stated over: per row, the weight of its
\* rule and its status as read on ScoreDay
StatedWeight(e) ==
    LET impact == ScoreRules[e.rule_id].penalty_impact IN
    IF impact = "Imprisonment" THEN 40
    ELSE IF impact = "High" THEN 30
    ELSE IF impact = "Medium" THEN 20
    ELSE 10

StatedStatus(e) ==
    IF e.status # "FAILED" /\ e.due_date < ScoreDay THEN "OVERDUE"
    ELSE e.status

\* twice the multiplier: 1.0, 0.5, 0.0
StatedDouble(e) ==
    IF StatedStatus(e) = "COMPLETED" THEN 2
    ELSE IF StatedStatus(e) = "OVERDUE-PASS" THEN 1
    ELSE 0

(* C17: compliance = 100 x sum(weight x multiplier) / sum(weight) over all
   rows, with weights 40, 30, 20, 10 and multipliers 1.0, 0.5, 0.0 on the
   status as read, and 0 when the total weight is 0; one High COMPLETED row
   gives 100, one High OVERDUE row plus one Low COMPLETED row gives 25. *)
C17_Compliance ==
    response.kind = "score" =>
        LET entries == response.entries
            compliance == response.summary.compliance
            total == SeqSum([k \in DOMAIN entries |-> StatedWeight(entries[k])])
            credit == SeqSum([k \in DOMAIN entries |->
                        StatedWeight(entries[k]) * StatedDouble(entries[k])])
        IN
        /\ compliance.den > 0
        /\ total = 0 => compliance.num = 0
        /\ total > 0 =>
              compliance.num * (2 * total) = (100 * credit) * compliance.den
        /\ ( /\ Len(entries) = 1
             /\ StatedWeight(entries[1]) = 30
             /\ StatedStatus(entries[1]) = "COMPLETED" )
              => compliance.num = 100 * compliance.den
        /\ ( /\ Len(entries) = 2
             /\ StatedWeight(entries[1]) = 30
             /\ StatedStatus(entries[1]) = "OVERDUE"
             /\ StatedWeight(entries[2]) = 10
             /\ StatedStatus(entries[2]) = "COMPLETED" )
              => compliance.num = 25 * compliance.den

\* an Imprisonment row COMPLETED and a Low row OVERDUE-PASS score 90
C17_Witness ==
    /\ response.kind = "score"
    /\ Len(response.entries) = 2
    /\ StatedWeight(response.entries[1]) = 40
    /\ StatedStatus(response.entries[1]) = "COMPLETED"
    /\ StatedWeight(response.entries[2]) = 10
    /\ StatedStatus(response.entries[2]) = "OVERDUE-PASS"
    /\ response.summary.compliance.num = 90 * response.summary.compliance.den

(* C18: risk = 100 x (sum of the weights of the rows read as OVERDUE)
   / (sum of all weights), and 0 when the total weight is 0; one High
   OVERDUE row plus one Low COMPLETED row gives 75. *)
C18_Risk ==
    response.kind = "score" =>
        LET entries == response.entries
            risk == response.summary.risk
            total == SeqSum([k \in DOMAIN entries |-> StatedWeight(entries[k])])
            overdue == SeqSum([k \in DOMAIN entries |->
                        IF StatedStatus(entries[k]) = "OVERDUE"
                        THEN StatedWeight(entries[k]) ELSE 0])
        IN
        /\ risk.den > 0
        /\ total = 0 => risk.num = 0
        /\ total > 0 => risk.num * total = (100 * overdue) * risk.den
        /\ ( /\ Len(entries) = 2
             /\ StatedWeight(entries[1]) = 30
             /\ StatedStatus(entries[1]) = "OVERDUE"
             /\ StatedWeight(entries[2]) = 10
             /\ StatedStatus(entries[2]) = "COMPLETED" )
              => risk.num = 75 * risk.den

\* a High row past due and still PENDING beside a Low row COMPLETED and not
\* yet due: risk 75
C18_Witness ==
    /\ response.kind = "score"
    /\ Len(response.entries) = 2
    /\ StatedWeight(response.entries[1]) = 30
    /\ response.entries[1].status = "PENDING"
    /\ response.entries[1].due_date < ScoreDay
    /\ StatedWeight(response.entries[2]) = 10
    /\ StatedStatus(response.entries[2]) = "COMPLETED"
    /\ response.summary.risk.num = 75 * response.summary.risk.den

(* C19: every compliance score lies in [0, 100] and has exactly one grade:
   A on [90, 100], B on [75, 90), C on [50, 75), D on [25, 50),
   F on [0, 25). *)
C19_GradeBands ==
    response.kind = "score" =>
        LET n == response.summary.compliance.num
            d == response.summary.compliance.den
            grade == response.summary.grade
        IN
        /\ 0 <= n /\ n <= 100 * d
        /\ grade \in {"A", "B", "C", "D", "F"}
        /\ grade = "A" <=> 90 * d <= n
        /\ grade = "B" <=> (75 * d <= n /\ n < 90 * d)
        /\ grade = "C" <=> (50 * d <= n /\ n < 75 * d)
        /\ grade = "D" <=> (25 * d <= n /\ n < 50 * d)
        /\ grade = "F" <=> n < 25 * d

\* a score of exactly 75 was graded B
C19_Witness ==
    /\ response.kind = "score"
    /\ response.summary.compliance.num = 75 * response.summary.compliance.den
    /\ response.summary.grade = "B"

(* C20: remove(doc, reason) changes only is_deleted and deleted_reason of
   that one version: no row is dropped, no is_current and no version_number
   changes, the calendar is untouched; and history(company, rule) returns
   exactly the versions of the pair that are not deleted, by descending
   version_number. *)
C20_SoftDelete ==
    [][/\ \A d \in DocIds :
            Remove(d, "emergency") =>
              /\ DOMAIN compliance_documents' = DOMAIN compliance_documents
              /\ \A i \in DocIds \ {d} :
                    compliance_documents'[i] = compliance_documents[i]
              /\ compliance_documents'[d]
                    = [compliance_documents[d] EXCEPT
                          !.is_deleted = TRUE, !.deleted_reason = "emergency"]
              /\ compliance_calendar' = compliance_calendar
       /\ \A rule_id \in DOMAIN Rules :
            History(rule_id) =>
              LET versions == response'.versions
                  pair == << company.company_id, rule_id >>
              IN
              /\ { versions[k] : k \in DOMAIN versions }
                    = { compliance_documents[i] :
                          i \in { j \in DocsOf(compliance_documents, pair) :
                                    ~compliance_documents[j].is_deleted } }
              /\ \A k \in DOMAIN versions : \A l \in DOMAIN versions :
                    k < l => versions[k].version_number
                               > versions[l].version_number
    ]_vars

\* the history of a pair with two versions was read after the current one
\* was deleted: it lists the older version alone, and no version is current
\* among the listed
C20_Witness ==
    /\ response.kind = "history"
    /\ Len(response.versions) = 1
    /\ response.versions[1].version_number = 1
    /\ ~response.versions[1].is_current
    /\ \E i \in DocIds :
          /\ compliance_documents[i].rule_id = response.rule_id
          /\ compliance_documents[i].version_number = 2
          /\ compliance_documents[i].is_deleted
          /\ compliance_documents[i].is_current

----------------------------------------------------------------------------
(* Steps of the properties on the document versions *)

\* a document row with its is_current flag put aside
ButCurrent(doc) == [doc EXCEPT !.is_current = FALSE]

\* the rows stored before a step keep every field but is_current, except row own
EarlierKept(own) ==
    \A i \in DocIds :
        i # own => ButCurrent(compliance_documents'[i])
                    = ButCurrent(compliance_documents[i])

(* C21: every upload, a re-upload for a pair that already has versions
   included, inserts a new row in compliance_documents with a version number
   the pair did not have, and no step of an upload changes a field other
   than is_current of a version stored before it: the only row an upload
   writes to besides that flag is the one it inserted itself. *)
C21_UploadInsertsNewVersion ==
    [][\A u \in Uploaders :
        LET pair == Pair(compliance_calendar[uploads[u].calendar_id]) IN
        /\ (\E cid \in CalendarIds : UploadStart(u, cid))
                => compliance_documents' = compliance_documents
        /\ UploadMarkOld(u)
                => /\ Len(compliance_documents') = Len(compliance_documents)
                   /\ EarlierKept(0)
        /\ UploadInsert(u)
                => /\ Len(compliance_documents') = Len(compliance_documents) + 1
                   /\ uploads'[u].doc_id = Len(compliance_documents')
                   /\ Pair(compliance_documents'[uploads'[u].doc_id]) = pair
                   /\ compliance_documents'[uploads'[u].doc_id].version_number
                        \notin VersionsOf(compliance_documents, pair)
                   /\ \A i \in DocIds :
                        compliance_documents'[i] = compliance_documents[i]
        /\ (\E text \in OcrTexts, d \in DocDates : UploadVerify(u, text, d))
                => /\ Len(compliance_documents') = Len(compliance_documents)
                   /\ uploads[u].doc_id \in DocIds
                   /\ compliance_documents[uploads[u].doc_id].version_number
                        = uploads[u].version
                   /\ EarlierKept(uploads[u].doc_id)
    ]_vars

\* a re-upload is at its OCR step: its version 2 is stored next to version 1,
\* which has kept the verdict of its own upload and is no longer current
C21_Witness ==
    \E u \in Uploaders :
        /\ uploads[u].pc = "ocr"
        /\ uploads[u].version = 2
        /\ compliance_documents[uploads[u].doc_id].version_number = 2
        /\ \E i \in DocIds :
            /\ Pair(compliance_documents[i])
                 = Pair(compliance_documents[uploads[u].doc_id])
            /\ compliance_documents[i].version_number = 1
            /\ compliance_documents[i].ocr_status = "FAILED"
            /\ ~compliance_documents[i].is_current

----------------------------------------------------------------------------
(* C22: a manual completion with an issue date and no custom expiry sets
   next_due_date to the issue date + rule.frequency_months, whatever the
   rule's fixed deadline, and a permanent completion leaves the row without
   a next_due_date; the request of the mark-done form carries
   expiry_date = null whenever "Use rule's default" is selected. *)
C22_ManualCompletion ==
    /\ [](response.kind = "markdone_due" =>
            /\ (~response.permanent /\ response.expiry_date = NoDate)
                    => response.next_due_date
                        = AddMonths(response.renewal_date,
                                    response.rule.frequency_months)
            /\ response.permanent => response.next_due_date = NoDate)
    /\ [][/\ MarkDoneSubmit =>
                /\ markDoneModal'.loading
                /\ markDoneModal'.request.renewal_date = markDoneModal.renewalDate
                /\ ~markDoneModal.useCustomExpiry
                        => markDoneModal'.request.expiry_date = NoDate
          /\ \A permanent \in BOOLEAN :
                MarkDoneRespond(permanent) =>
                    LET cid == markDoneModal.calendarId
                        req == markDoneModal.request
                        new == compliance_calendar'[cid]
                    IN  /\ (~permanent /\ req.expiry_date = NoDate)
                            => /\ new.next_due_date
                                    = AddMonths(req.renewal_date,
                                        RuleOf(new.rule_id).frequency_months)
                               /\ markDoneModal'.result.next_due_date
                                    = new.next_due_date
                        /\ permanent
                            => /\ new.next_due_date = NoDate
                               /\ markDoneModal'.result.next_due_date = NoDate
      ]_vars

\* the form was submitted with the default option and an issue date of
\* 31 January; the answer is not permanent and the row is due one month
\* later, on 28 February
C22_Witness ==
    /\ markDoneModal.open
    /\ markDoneModal.result # NoResponse
    /\ ~markDoneModal.result.permanent
    /\ ~markDoneModal.useCustomExpiry
    /\ markDoneModal.request.expiry_date = NoDate
    /\ markDoneModal.request.renewal_date = MkDate(2026, 1, 31)
    /\ compliance_calendar[markDoneModal.calendarId].next_due_date
            = MkDate(2026, 2, 28)
    /\ compliance_calendar[markDoneModal.calendarId].due_date
            = MkDate(2026, 2, 28)

----------------------------------------------------------------------------
(* C23: a rule with min_employees > max_employees, and a signup with a
   negative employee_count, are answered with a ValidationError and change
   nothing: the rule catalogue, the company and the calendar are exactly as
   before; so every stored rule has min_employees <= max_employees. *)
C23_ValidationError ==
    /\ [](\A i \in DOMAIN compliance_rules :
            compliance_rules[i].min_employees
                <= compliance_rules[i].max_employees)
    /\ [][/\ \A values \in RuleForms, target \in {0} \cup EditedRules :
                (SaveRule(values, target)
                 /\ values.min_employees > values.max_employees)
                    => /\ response'.kind = "ValidationError"
                       /\ UNCHANGED <<compliance_rules, company, signedUp,
                                      compliance_calendar>>
          /\ \A employee_count \in EmployeeCounts :
                (SignupWith(employee_count) /\ employee_count < 0)
                    => /\ response'.kind = "ValidationError"
                       /\ UNCHANGED <<compliance_rules, company, signedUp,
                                      compliance_calendar>>
      ]_vars

\* a rule with min_employees > max_employees has just been refused, after
\* the company signed up, a fifth rule was added and rule 3 was edited
C23_Witness ==
    /\ response = ValidationError("min_employees > max_employees")
    /\ signedUp
    /\ Len(compliance_rules) = 5
    /\ compliance_rules[3].min_employees = 60
    /\ compliance_rules[3].max_employees = 999999

----------------------------------------------------------------------------
(* C24: in every reachable state a flag with resolved = FALSE has no
   resolver and no resolution time; raising a flag inserts a row with
   resolved = FALSE, resolving one sets resolved = TRUE together with
   resolved_by and resolved_at, and neither changes the status of any
   calendar entry. *)
C24_FlagLedger ==
    /\ [](\A f \in DOMAIN audit_flags :
            ~audit_flags[f].resolved
                => /\ audit_flags[f].resolved_by = "null"
                   /\ audit_flags[f].resolved_at = NoDate)
    /\ [][/\ \A doc_id \in CalendarIds, by \in Auditors,
               reason \in FlagReasons :
                (RaiseFlag(doc_id, by, reason) /\ doc_id \in DocIds)
                    => /\ Len(audit_flags') = Len(audit_flags) + 1
                       /\ ~audit_flags'[Len(audit_flags')].resolved
                       /\ audit_flags'[Len(audit_flags')].doc_id = doc_id
                       /\ \A f \in DOMAIN audit_flags :
                            audit_flags'[f] = audit_flags[f]
                       /\ \A cid \in CalendarIds :
                            compliance_calendar'[cid].status
                                = compliance_calendar[cid].status
          /\ \A flag_id \in DOMAIN audit_flags, by \in Admins :
                ResolveFlag(flag_id, by)
                    => /\ audit_flags'[flag_id].resolved
                       /\ audit_flags'[flag_id].resolved_by = by
                       /\ audit_flags'[flag_id].resolved_at = Today
                       /\ audit_flags'[flag_id].resolved_at # NoDate
                       /\ \A cid \in CalendarIds :
                            compliance_calendar'[cid].status
                                = compliance_calendar[cid].status
      ]_vars

\* two flags on the document of a FAILED row, the first resolved, the second
\* still open
C24_Witness ==
    /\ Len(audit_flags) = 2
    /\ audit_flags[1].resolved
    /\ audit_flags[1].resolved_by \in Admins
    /\ ~audit_flags[2].resolved
    /\ audit_flags[2].doc_id = audit_flags[1].doc_id
    /\ compliance_calendar[
            compliance_documents[audit_flags[1].doc_id].calendar_id].status
         = "FAILED"

----------------------------------------------------------------------------
(* C25: a score computed while an upload for an entry is in progress
   reflects, for that entry, its state entirely before the status transition
   or entirely after it: the scores are computed from the rows of one state,
   and while an upload of an entry is in progress the row changes only by
   the whole transition of an upload that ends with it, status, due_date and
   next_due_date together. *)
C25_ScoreMidUpload ==
    [][/\ Read =>
            /\ response'.summary
                 = score(compliance_calendar, compliance_rules, Today)
            /\ response'.rules = DashboardRows(compliance_calendar, Today)
       /\ \A cid \in CalendarIds :
            (/\ \E u \in Uploaders :
                    uploads[u].pc # "idle" /\ uploads[u].calendar_id = cid
             /\ compliance_calendar'[cid] # compliance_calendar[cid])
            => \E u \in Uploaders, text \in OcrTexts, d \in DocDates :
                  /\ uploads[u].pc = "ocr"
                  /\ uploads[u].calendar_id = cid
                  /\ uploads'[u].pc = "idle"
                  /\ compliance_calendar'[cid]
                        = ApplyVerdict(compliance_calendar[cid], company,
                                       MissingKeywords(text), d, YearOf(Today))
    ]_vars

\* the dashboard was read while an upload for a row is at its OCR step: the
\* row, completed by an earlier upload, is read with its new status and its
\* new dates, and counts in the compliance score
C25_Witness ==
    /\ response.kind = "dashboard"
    /\ response.summary.compliance.num > 0
    /\ \E u \in Uploaders :
        LET row == UploadRow(u) IN
        /\ uploads[u].pc = "ocr"
        /\ row.status = "COMPLETED"
        /\ row.due_date = row.next_due_date
        /\ row.next_due_date # NoDate
        /\ response.rules[uploads[u].calendar_id] = "COMPLETED"

\* the stored token decodes, is not expired at t and carries the role
ValidFor(token, role, t) ==
    /\ token # NoToken
    /\ token.decodes
    /\ ~(token.exp # 0 /\ token.exp < t)
    /\ token.role = role

\* C26: a protected route renders its children only when localStorage holds
\* a token that decodes, is not expired and carries the route's role, and
\* redirects to "/" in every other case; a dashboard comes to be shown only
\* under a token of its own role.
C26_ProtectedRoute ==
    /\ [](\A path \in Dashboards :
            /\ ProtectedRoute(localStorage, RequiredRole(path), Today).children
                 <=> ValidFor(localStorage, RequiredRole(path), Today)
            /\ App(path, localStorage, Today).location =
                 IF ValidFor(localStorage, RequiredRole(path), Today)
                 THEN path ELSE "/")
    /\ [][location' \in Dashboards /\ location' # location =>
            ValidFor(localStorage', RequiredRole(location'), Today)]_vars

\* the company dashboard is shown under a company token that has an exp
C26_Witness ==
    /\ location = "/company"
    /\ localStorage # NoToken
    /\ localStorage.role = "company"
    /\ localStorage.exp > Today

\* C27: closing the upload modal calls onSuccess, which refreshes the
\* dashboard, exactly when a result has been received, and onClose
\* otherwise; while a request is in flight the modal stays open and no
\* second request is started.
C27_UploadModal ==
    /\ [](uploadModal.pending <= 1 /\
          (uploadModal.loading <=> uploadModal.pending = 1))
    /\ [][uploadModal.pending > 0 =>
            uploadModal'.open /\ uploadModal'.pending <= uploadModal.pending]_vars
    /\ [][uploadModal.open /\ ~uploadModal'.open =>
            IF uploadModal.result # NoResponse
            THEN response' =
                    [kind |-> "dashboard",
                     rules |-> DashboardRows(compliance_calendar, Today),
                     summary |-> score(compliance_calendar,
                                       compliance_rules, Today)]
            ELSE response' = response]_vars

\* a request is in flight in a modal that has received a result, a FAILED
\* one, with the versions of both of its uploads stored
C27_Witness ==
    /\ uploadModal.open
    /\ uploadModal.loading
    /\ uploadModal.result # NoResponse
    /\ Len(compliance_documents) > 1

\* the Branch-scoped entries of a built calendar
BranchEntries(entries) ==
    { i \in DOMAIN entries : RuleOf(entries[i].rule_id).scope = "Branch" }

\* C28, as stated: every Branch-scope entry produced by build has a
\* branch_state to which its rule applies: the rule's state set is the ALL
\* sentinel or contains that branch_state.
C28_AsStated ==
    response.kind = "build" =>
        \A i \in BranchEntries(response.entries) :
            LET e == response.entries[i] IN
            \/ RuleOf(e.rule_id).applicable_states = ALL
            \/ e.branch_state \in RuleOf(e.rule_id).applicable_states

\* C28, amended: every Branch-scope entry produced by build has a
\* branch_state that is one of the company's effective states, and its rule
\* applies to at least one of those states: the rule's state set is the ALL
\* sentinel or contains an effective state of the company.
C28_BranchEntryStates ==
    response.kind = "build" =>
        \A i \in BranchEntries(response.entries) :
            LET e == response.entries[i] IN
            /\ e.branch_state \in EffectiveStates(response.company)
            /\ \/ RuleOf(e.rule_id).applicable_states = ALL
               \/ RuleOf(e.rule_id).applicable_states
                    \cap EffectiveStates(response.company) # {}

\* a calendar holds the entry of the Gujarat rule for a branch in Maharashtra
C28_Witness ==
    /\ response.kind = "build"
    /\ \E i \in BranchEntries(response.entries) :
            /\ RuleOf(response.entries[i].rule_id).applicable_states
                    = {"Gujarat"}
            /\ response.entries[i].branch_state = "Maharashtra"

\* C29: for entries of positive total weight, compliance and risk each lie
\* in [0, 100] and compliance + risk <= 100: an entry read as OVERDUE, which
\* counts in the risk, earns no credit.
C29_ScoresBounded ==
    response.kind = "score" =>
        LET entries == response.entries
            c == response.summary.compliance
            r == response.summary.risk
            total == SeqSum([k \in DOMAIN entries |-> StatedWeight(entries[k])])
        IN
        total > 0 =>
            /\ c.den > 0 /\ r.den > 0
            /\ 0 <= c.num /\ c.num <= 100 * c.den
            /\ 0 <= r.num /\ r.num <= 100 * r.den
            /\ c.num * r.den + r.num * c.den <= 100 * c.den * r.den

\* a COMPLETED row whose due date has passed beside a COMPLETED row not yet
\* due: both scores positive, their sum exactly 100
C29_Witness ==
    /\ response.kind = "score"
    /\ Len(response.entries) = 2
    /\ response.entries[1].status = "COMPLETED"
    /\ response.entries[1].due_date < ScoreDay
    /\ response.entries[2].status = "COMPLETED"
    /\ response.entries[2].due_date >= ScoreDay
    /\ response.summary.risk.num > 0
    /\ response.summary.compliance.num > 0
    /\ response.summary.compliance.num * response.summary.risk.den
         + response.summary.risk.num * response.summary.compliance.den
       = 100 * response.summary.compliance.den * response.summary.risk.den

\* exactly ['ALL'], or a list without 'ALL' and without a repeated tag
SentinelOrTags(value) ==
    \/ value = << "ALL" >>
    \/ /\ \A i \in DOMAIN value : value[i] # "ALL"
       /\ \A i, j \in DOMAIN value : value[i] = value[j] => i = j

\* C30: after any sequence of toggles from ['ALL'], the value of each of the
\* industry, state and company-type selectors is exactly ['ALL'], or a list
\* with no 'ALL' and no repeated tag, possibly empty.
C30_CheckboxGroup ==
    /\ SentinelOrTags(ruleModal.industry_type)
    /\ SentinelOrTags(ruleModal.applicable_states)
    /\ SentinelOrTags(ruleModal.company_type)

\* two states selected, the only selected industry deselected again
C30_Witness ==
    /\ ruleModal.applicable_states = << "Maharashtra", "Gujarat" >>
    /\ ruleModal.industry_type = << >>
    /\ ruleModal.company_type = << "ALL" >>
====
